---------------------------- MODULE Spec2Model ----------------------------
(***************************************************************************)
(* A model of the AnalystPro analytics engine (Excel_Analyser):            *)
(*   MathEngine.calculateTrend / detectAnomalies / generateInsights,       *)
(*   MathEngine.performPivot, ExcelDateUtils and App.processData.          *)
(*                                                                         *)
(* JavaScript values are modelled explicitly:                              *)
(*   - a cell is a record [t, n, s]: t is the typeof tag ("undefined",     *)
(*     "null", "string", "number"), n the value of a number, s the UTF-16  *)
(*     code units of a string;                                             *)
(*   - the result of an arithmetic expression is an exact rational         *)
(*     [num, den] in lowest terms (IEEE rounding error is not modelled),   *)
(*     or one of the non-finite numbers NaN, Infinity, -Infinity;          *)
(*   - a value shown with toFixed(2) is an integer count of hundredths.    *)
(***************************************************************************)
EXTENDS Integers, Sequences, FiniteSets, TLC

VARIABLES
  pc,             \* which call has been made on the current input
  values,         \* the numeric series handed to the MathEngine functions
  trendOut,       \* the object returned by calculateTrend
  insightsOut,    \* the object returned by generateInsights
  json,           \* the dataset: a sequence of rows (column name -> cell)
  blocks,         \* how many blocks of rows the dataset was built from
  pivotArgs,      \* the (rowDim, colDim, valDim, func) of the last pivot
  pivotOut,       \* performPivot's locals and its returned object
  analyticsData,  \* the state set by processData (setAnalyticsData)
  ys,             \* a second numeric series (calculateCorrelation's y)
  statOut,        \* the function called on the series and what it returned
  appState,       \* App: "upload", "cleaning" or "dashboard"
  rawJSON,        \* App: the rows parsed from the file read last
  cleanData,      \* App: the rows confirmed in the cleaning view
  reads,          \* the files whose FileReader has not fired onload yet
  selected,       \* the file of the last change event of an upload input
  viewData,       \* DataCleaningView: data, the rows being cleaned
  viewHeaders,    \* DataCleaningView: headers, the column names shown
  selectedCol,    \* DataCleaningView: the selected column, or "null"
  history,        \* DataCleaningView: the undo snapshots, oldest first
  request         \* how many calls of applyTransform, and whether the last was applied

\* the state of App (without analyticsData) and of DataCleaningView
appVars == <<appState, rawJSON, cleanData, reads, selected,
             viewData, viewHeaders, selectedCol, history, request>>

vars == <<pc, values, trendOut, insightsOut, json, blocks, pivotArgs, pivotOut, analyticsData,
          ys, statOut, appVars>>

(***************************************************************************)
(* Bounds of the model.                                                    *)
(***************************************************************************)
MaxLen == 6          \* longest series handed to calculateTrend
MaxRows == 3         \* most rows in a dataset handed to performPivot
MaxBlocks == 2       \* most row blocks in a dataset handed to processData

(***************************************************************************)
(* Integer helpers.                                                        *)
(***************************************************************************)
Abs(i) == IF i < 0 THEN -i ELSE i

RECURSIVE GCD(_, _)
GCD(a, b) == IF b = 0 THEN a ELSE GCD(b, a % b)

Range(f) == {f[i] : i \in DOMAIN f}

RECURSIVE SumSeq(_)
\* values.reduce((a, b) => a + b, 0) on a sequence of integers
SumSeq(s) == IF s = <<>> THEN 0 ELSE s[1] + SumSeq(Tail(s))

(***************************************************************************)
(* Exact rationals: the finite JavaScript numbers of the model.            *)
(***************************************************************************)
Rat(n, d) ==
  LET g == GCD(Abs(n), Abs(d))
      sg == IF d < 0 THEN -1 ELSE 1
  IN [num |-> (sg * n) \div g, den |-> (sg * d) \div g]

RInt(i) == [num |-> i, den |-> 1]
\* sums are formed over the least common denominator
RAdd(a, b) ==
  LET g == GCD(a.den, b.den)
  IN Rat(a.num * (b.den \div g) + b.num * (a.den \div g), (a.den \div g) * b.den)
RNeg(a) == [num |-> -a.num, den |-> a.den]
RSub(a, b) == RAdd(a, RNeg(b))
RMul(a, b) == Rat(a.num * b.num, a.den * b.den)
RDiv(a, b) == Rat(a.num * b.den, a.den * b.num)
RLt(a, b) == a.num * b.den < b.num * a.den

\* x.toFixed(2) read back as a count of hundredths: the nearest hundredth,
\* a tie going away from zero (Number.prototype.toFixed picks the larger n
\* for the absolute value and keeps the sign).
ToFixed2(r) ==
  LET a == Abs(r.num)
      q == (200 * a + r.den) \div (2 * r.den)
  IN IF r.num < 0 THEN -q ELSE q


(***************************************************************************)
(* MathEngine: trend, anomalies, insights (series of integers).            *)
(***************************************************************************)
Undefined == "undefined"

\* const { f } = obj: the property, or undefined when obj has none of that name
Prop(obj, f) == IF f \in DOMAIN obj THEN obj[f] ELSE Undefined

RECURSIVE InsertNum(_, _)
InsertNum(x, s) ==
  IF s = <<>> THEN <<x>>
  ELSE IF x < s[1] THEN <<x>> \o s
  ELSE <<s[1]>> \o InsertNum(x, Tail(s))

RECURSIVE SortNumFrom(_, _)
SortNumFrom(s, acc) ==
  IF s = <<>> THEN acc ELSE SortNumFrom(Tail(s), InsertNum(s[1], acc))

\* [...values].sort((a, b) => a - b)
SortNum(s) == SortNumFrom(s, <<>>)

\* x.reduce((sum, xi, i) => sum + xi * y[i], 0) with x = 0..n-1
SumXY(y) == SumSeq([i \in 1..Len(y) |-> (i - 1) * y[i]])

Threshold == Rat(1, 20)      \* the literal 0.05

TrendDirectionOf(slope) ==
  IF RLt(Threshold, slope) THEN "increasing"
  ELSE IF RLt(slope, RSub(RInt(0), Threshold)) THEN "decreasing"
  ELSE "stable"

\* calculateTrend with the forecast taken at the last observed x (n - 1)
\* instead of one step beyond the series
calculateTrend_ForecastAtLast(vals) ==
  LET n == Len(vals)
      sumX == SumSeq([i \in 1..n |-> i - 1])
      sumY == SumSeq(vals)
      sumXY == SumXY(vals)
      sumX2 == SumSeq([i \in 1..n |-> (i - 1) * (i - 1)])
      denominator == n * sumX2 - sumX * sumX
      slope == Rat(n * sumXY - sumX * sumY, denominator)
      intercept == RDiv(RSub(RInt(sumY), RMul(slope, RInt(sumX))), RInt(n))
      nextVal == RAdd(RMul(slope, RInt(n - 1)), intercept)
  IN IF n < 2
       THEN [slope |-> RInt(0), nextVal |-> RInt(0), trend |-> "stable"]
     ELSE IF denominator = 0
       THEN [slope |-> RInt(0), nextVal |-> RInt(vals[n]), trend |-> "stable"]
     ELSE [slope |-> slope, intercept |-> intercept, nextVal |-> nextVal,
           trendDirection |-> TrendDirectionOf(slope)]

calculateTrend(vals) ==
  LET n == Len(vals)
      sumX == SumSeq([i \in 1..n |-> i - 1])
      sumY == SumSeq(vals)
      sumXY == SumXY(vals)
      sumX2 == SumSeq([i \in 1..n |-> (i - 1) * (i - 1)])
      denominator == n * sumX2 - sumX * sumX
      slope == Rat(n * sumXY - sumX * sumY, denominator)
      intercept == RDiv(RSub(RInt(sumY), RMul(slope, RInt(sumX))), RInt(n))
      nextVal == RAdd(RMul(slope, RInt(n)), intercept)
  IN IF n < 2
       THEN [slope |-> RInt(0), nextVal |-> RInt(0), trend |-> "stable"]
     ELSE IF denominator = 0
       THEN [slope |-> RInt(0), nextVal |-> RInt(vals[n]), trend |-> "stable"]
     ELSE [slope |-> slope, intercept |-> intercept, nextVal |-> nextVal,
           trendDirection |-> TrendDirectionOf(slope)]

\* detectAnomalies with inclusive bounds (a value on a bound is reported)
detectAnomalies_Inclusive(vals) ==
  IF Len(vals) < 4 THEN <<>>
  ELSE LET sorted == SortNum(vals)
           q1 == sorted[(Len(sorted) \div 4) + 1]
           q3 == sorted[((3 * Len(sorted)) \div 4) + 1]
           iqr == q3 - q1
           IsOut(v) == 2 * v <= 2 * q1 - 3 * iqr \/ 2 * v >= 2 * q3 + 3 * iqr
       IN SelectSeq(vals, IsOut)

detectAnomalies(vals) ==
  IF Len(vals) < 4 THEN <<>>
  ELSE LET sorted == SortNum(vals)
           q1 == sorted[(Len(sorted) \div 4) + 1]
           q3 == sorted[((3 * Len(sorted)) \div 4) + 1]
           iqr == q3 - q1
           \* v < q1 - 1.5 * iqr  or  v > q3 + 1.5 * iqr, doubled
           IsOut(v) == 2 * v < 2 * q1 - 3 * iqr \/ 2 * v > 2 * q3 + 3 * iqr
       IN SelectSeq(vals, IsOut)

\* The text of an insight is kept as the values interpolated into it.
generateInsights(colName, vals) ==
  LET t == calculateTrend(vals)
      slope == Prop(t, "slope")
      nextVal == Prop(t, "nextVal")
      trendDirection == Prop(t, "trendDirection")
      anomalies == detectAnomalies(vals)
      trendInsight ==
        IF trendDirection # "stable"
          THEN <<[type |-> "trend", score |-> "high",
                  text |-> [column |-> colName, direction |-> trendDirection]]>>
          ELSE <<>>
      prediction ==
        <<[type |-> "prediction", score |-> "medium",
           text |-> [forecast |-> ToFixed2(nextVal)]]>>
      anomalyInsight ==
        IF Len(anomalies) > 0
          THEN <<[type |-> "anomaly", score |-> "critical",
                  text |-> [count |-> Len(anomalies)]]>>
          ELSE <<>>
  IN [insights |-> trendInsight \o prediction \o anomalyInsight,
      anomalies |-> anomalies, nextVal |-> nextVal, slope |-> slope]

(***************************************************************************)
(* JavaScript cells and strings.                                           *)
(***************************************************************************)
Undef == [t |-> "undefined", n |-> 0, s |-> <<>>]
Null == [t |-> "null", n |-> 0, s |-> <<>>]
Str(s) == [t |-> "string", n |-> 0, s |-> s]
Num(n) == [t |-> "number", n |-> n, s |-> <<>>]

\* row[col]: undefined when the row has no such property
Field(row, col) == IF col \in DOMAIN row THEN row[col] ELSE Undef

\* val === undefined || val === null || val === ""
IsMissing(v) == v.t = "undefined" \/ v.t = "null" \/ (v.t = "string" /\ v.s = <<>>)

RECURSIVE Digits(_)
\* the decimal digits of a natural number, as code units
Digits(n) == IF n < 10 THEN <<48 + n>> ELSE Digits(n \div 10) \o <<48 + (n % 10)>>

\* Number::toString of an integer
NumToStr(n) == IF n < 0 THEN <<45>> \o Digits(-n) ELSE Digits(n)

str_undefined == <<117, 110, 100, 101, 102, 105, 110, 101, 100>>
str_null == <<110, 117, 108, 108>>
str_Total == <<84, 111, 116, 97, 108>>

\* JSToString(v), also the property key v is coerced to in obj[v]
JSToString(v) ==
  CASE v.t = "string" -> v.s
    [] v.t = "number" -> NumToStr(v.n)
    [] v.t = "null" -> str_null
    [] OTHER -> str_undefined

RECURSIVE StrLt(_, _)
\* a < b on strings: lexicographic on UTF-16 code units
StrLt(a, b) ==
  IF b = <<>> THEN FALSE
  ELSE IF a = <<>> THEN TRUE
  ELSE IF a[1] # b[1] THEN a[1] < b[1]
  ELSE StrLt(Tail(a), Tail(b))

RECURSIVE InsertKey(_, _)
\* stable insertion: x goes before the first element whose string is greater
InsertKey(x, s) ==
  IF s = <<>> THEN <<x>>
  ELSE IF StrLt(JSToString(x), JSToString(s[1])) THEN <<x>> \o s
  ELSE <<s[1]>> \o InsertKey(x, Tail(s))

RECURSIVE SortKeysFrom(_, _)
SortKeysFrom(s, acc) ==
  IF s = <<>> THEN acc ELSE SortKeysFrom(Tail(s), InsertKey(s[1], acc))

\* the keys left in insertion order (the sort forgotten)
DefaultSort_Unsorted(s) == s

\* Array.prototype.sort() with no comparator: ascending by ToString, stable
DefaultSort(s) == SortKeysFrom(s, <<>>)

\* set.add(x) on a Set kept in insertion order
SetAdd(s, x) == IF x \in Range(s) THEN s ELSE Append(s, x)

(***************************************************************************)
(* MathEngine.performPivot.                                                *)
(***************************************************************************)
Total == Str(str_Total)

\* the forEach callback's early return
Skip == [t |-> "skip", n |-> 0, s |-> <<>>]

\* DimKey testing only for undefined: null and "" become keys
DimKey_OnlyUndefined(row, dim) ==
  IF dim = "None" THEN Total
  ELSE IF Field(row, dim).t = "undefined" THEN Skip
  ELSE Field(row, dim)

\* the key of a dimension for a row, or Skip
DimKey(row, dim) ==
  IF dim = "None" THEN Total
  ELSE IF IsMissing(Field(row, dim)) THEN Skip
  ELSE Field(row, dim)

\* every reading pushed, whatever the function (non-numbers then count as 0)
Accumulates_Always(func, val) == TRUE

\* the value is pushed for Count, or when typeof val === "number"
Accumulates(func, val) == func = "Count" \/ val.t = "number"

\* obj[k] after "if (!obj[k]) obj[k] = init" (k coerced to a property key)
Ensure(obj, k, init) ==
  [x \in DOMAIN obj \cup {k} |-> IF x \in DOMAIN obj THEN obj[x] ELSE init]

EmptyObject == [x \in {} |-> 0]

\* the body of data.forEach: st holds rowKeys, colKeys and valuesMap
PivotRow(st, row, rowDim, colDim, valDim, func) ==
  LET rKey == DimKey(row, rowDim)
      cKey == DimKey(row, colDim)
  IN IF rKey = Skip \/ cKey = Skip THEN st
     ELSE LET r == JSToString(rKey)
              c == JSToString(cKey)
              m1 == Ensure(st.valuesMap, r, EmptyObject)
              m2 == [m1 EXCEPT ![r] = Ensure(m1[r], c, <<>>)]
              val == Field(row, valDim)
              m3 == IF Accumulates(func, val)
                      THEN [m2 EXCEPT ![r][c] = Append(m2[r][c], val)]
                      ELSE m2
          IN [rowKeys |-> SetAdd(st.rowKeys, rKey),
              colKeys |-> SetAdd(st.colKeys, cKey),
              valuesMap |-> m3]

RECURSIVE PivotRows(_, _, _, _, _, _)
PivotRows(st, data, rowDim, colDim, valDim, func) ==
  IF data = <<>> THEN st
  ELSE PivotRows(PivotRow(st, data[1], rowDim, colDim, valDim, func),
                 Tail(data), rowDim, colDim, valDim, func)

RECURSIVE MaxSeq(_)
MaxSeq(s) ==
  IF Len(s) = 1 THEN s[1]
  ELSE LET m == MaxSeq(Tail(s)) IN IF s[1] > m THEN s[1] ELSE m

RECURSIVE MinSeq(_)
MinSeq(s) ==
  IF Len(s) = 1 THEN s[1]
  ELSE LET m == MinSeq(Tail(s)) IN IF s[1] < m THEN s[1] ELSE m

Nums(vals) == [i \in 1..Len(vals) |-> vals[i].n]

\* Aggregate with Average missing its division
Aggregate_AverageNotDivided(func, vals) ==
  IF Len(vals) > 0
    THEN CASE func = "Sum" -> RInt(SumSeq(Nums(vals)))
           [] func = "Average" -> RInt(SumSeq(Nums(vals)))
           [] func = "Count" -> RInt(Len(vals))
           [] func = "Max" -> RInt(MaxSeq(Nums(vals)))
           [] func = "Min" -> RInt(MinSeq(Nums(vals)))
           [] OTHER -> RInt(0)
    ELSE RInt(0)

\* the switch over func, for a bucket vals
Aggregate(func, vals) ==
  IF Len(vals) > 0
    THEN CASE func = "Sum" -> RInt(SumSeq(Nums(vals)))
           [] func = "Average" -> Rat(SumSeq(Nums(vals)), Len(vals))
           [] func = "Count" -> RInt(Len(vals))
           [] func = "Max" -> RInt(MaxSeq(Nums(vals)))
           [] func = "Min" -> RInt(MinSeq(Nums(vals)))
           [] OTHER -> RInt(0)
    ELSE RInt(0)

\* parseFloat(result.toFixed(2))
Round2(r) == Rat(ToFixed2(r), 100)

\* valuesMap[rKey]?.[cKey] || []
Bucket(valuesMap, r, c) ==
  IF r \in DOMAIN valuesMap /\ c \in DOMAIN valuesMap[r] THEN valuesMap[r][c] ELSE <<>>

\* a grid holding only the pairs that have a bucket
GridOf_Sparse(sortedRowKeys, sortedColKeys, valuesMap, func) ==
  [r \in DOMAIN valuesMap |->
     [c \in DOMAIN valuesMap[r] |->
        Round2(Aggregate(func, Bucket(valuesMap, r, c)))]]

\* the grid: an object keyed by the row keys' strings, of objects keyed by
\* the column keys' strings
GridOf(sortedRowKeys, sortedColKeys, valuesMap, func) ==
  [r \in {JSToString(k) : k \in Range(sortedRowKeys)} |->
     [c \in {JSToString(k) : k \in Range(sortedColKeys)} |->
        Round2(Aggregate(func, Bucket(valuesMap, r, c)))]]

performPivot(data, rowDim, colDim, valDim, func) ==
  LET st == PivotRows([rowKeys |-> <<>>, colKeys |-> <<>>, valuesMap |-> EmptyObject],
                      data, rowDim, colDim, valDim, func)
      sortedRowKeys == DefaultSort(st.rowKeys)
      sortedColKeys == DefaultSort(st.colKeys)
  IN [rowKeys |-> sortedRowKeys,
      colKeys |-> sortedColKeys,
      grid |-> GridOf(sortedRowKeys, sortedColKeys, st.valuesMap, func),
      valuesMap |-> st.valuesMap]

(***************************************************************************)
(* Non-finite numbers and Number(val).  A number is finite (den > 0) or    *)
(* one of NaN, Infinity, -Infinity (den = 0).                              *)
(***************************************************************************)
NaN == [num |-> 0, den |-> 0]
Infinity == [num |-> 1, den |-> 0]
NegInfinity == [num |-> -1, den |-> 0]

IsFinite(x) == x.den # 0

\* isNaN(x)
IsNaN(x) == x = NaN

str_Infinity == <<73, 110, 102, 105, 110, 105, 116, 121>>
str_NA == <<78, 47, 65>>

RECURSIVE TrimLeft(_)
TrimLeft(s) == IF s # <<>> /\ s[1] = 32 THEN TrimLeft(Tail(s)) ELSE s

RECURSIVE TrimRight(_)
TrimRight(s) ==
  IF s # <<>> /\ s[Len(s)] = 32 THEN TrimRight(SubSeq(s, 1, Len(s) - 1)) ELSE s

IsDigits(s) == s # <<>> /\ \A i \in DOMAIN s : s[i] \in 48..57

RECURSIVE DigitsValue(_)
DigitsValue(s) ==
  IF s = <<>> THEN 0 ELSE 10 * DigitsValue(SubSeq(s, 1, Len(s) - 1)) + (s[Len(s)] - 48)

\* StringToNumber for strings of spaces, signs, digits and letters
\* (no fraction, exponent or radix prefix)
StringToNumber(s) ==
  LET b == TrimRight(TrimLeft(s))
      signed == b # <<>> /\ b[1] \in {43, 45}
      body == IF signed THEN Tail(b) ELSE b
      neg == signed /\ b[1] = 45
  IN IF b = <<>> THEN RInt(0)
     ELSE IF body = str_Infinity THEN (IF neg THEN NegInfinity ELSE Infinity)
     ELSE IF IsDigits(body) THEN RInt(IF neg THEN -DigitsValue(body) ELSE DigitsValue(body))
     ELSE NaN

\* Number(val)
ToNumber(v) ==
  CASE v.t = "number" -> RInt(v.n)
    [] v.t = "string" -> StringToNumber(v.s)
    [] v.t = "null" -> RInt(0)
    [] OTHER -> NaN

\* a cell used as a condition: undefined, null, "" and 0 are falsy
Truthy(v) ==
  CASE v.t = "number" -> v.n # 0
    [] v.t = "string" -> v.s # <<>>
    [] OTHER -> FALSE

(***************************************************************************)
(* ExcelDateUtils.                                                         *)
(***************************************************************************)
SampleLimit == 50
SerialLow == 32000
SerialHigh == 75000
EpochOffset == 25569

\* isLikelyDate flagging at a fraction of 0.8 or more
isLikelyDate_AtLeast(vals) ==
  IF Len(vals) = 0 THEN FALSE
  ELSE LET checkLimit == IF Len(vals) < SampleLimit THEN Len(vals) ELSE SampleLimit
           validCount ==
             Cardinality({i \in 1..checkLimit :
                            /\ vals[i].t = "number"
                            /\ vals[i].n > SerialLow
                            /\ vals[i].n < SerialHigh})
       IN 10 * validCount >= 8 * checkLimit

\* values.length and the first checkLimit values
isLikelyDate(vals) ==
  IF Len(vals) = 0 THEN FALSE
  ELSE LET checkLimit == IF Len(vals) < SampleLimit THEN Len(vals) ELSE SampleLimit
           validCount ==
             Cardinality({i \in 1..checkLimit :
                            /\ vals[i].t = "number"
                            /\ vals[i].n > SerialLow
                            /\ vals[i].n < SerialHigh})
       \* (validCount / checkLimit) > 0.8
       IN 10 * validCount > 8 * checkLimit

\* the UTC calendar date of a day count since 1970-01-01 (days >= -719468)
CivilFromDays(days) ==
  LET z == days + 719468
      era == z \div 146097
      doe == z - era * 146097
      yoe == (doe - doe \div 1460 + doe \div 36524 - doe \div 146096) \div 365
      doy == doe - (365 * yoe + yoe \div 4 - yoe \div 100)
      mp == (5 * doy + 2) \div 153
      d == doy - (153 * mp + 2) \div 5 + 1
      m == IF mp < 10 THEN mp + 3 ELSE mp - 9
      y == yoe + era * 400 + (IF m <= 2 THEN 1 ELSE 0)
  IN [year |-> y, month |-> m, day |-> d]

\* String(n).padStart(2, '0')
PadStart2(n) == IF n < 10 THEN <<48>> \o Digits(n) ELSE Digits(n)

serialToDateStr(serial) ==
  LET utc_days == serial - EpochOffset
      date_info == CivilFromDays(utc_days)
  IN Digits(date_info.year) \o <<45>> \o PadStart2(date_info.month)
       \o <<45>> \o PadStart2(date_info.day)

(***************************************************************************)
(* App.processData.                                                        *)
(***************************************************************************)
\* the order in which the parser inserts the columns of a row
ColumnOrder == <<"p", "q">>

\* Object.keys(row)
Keys(row) == SelectSeq(ColumnOrder, LAMBDA c : c \in DOMAIN row)

\* an array as a value: its elements are computed when the array is built
ArrayOf(f) == f \o <<>>

\* json.slice(0, 50).map(row => row[header])
SampleValues(data, header) ==
  ArrayOf([i \in 1..(IF Len(data) < SampleLimit THEN Len(data) ELSE SampleLimit) |->
             Field(data[i], header)])

\* step 1: the headers flagged as dates
DateColumns(data, headers) ==
  {h \in Range(headers) : isLikelyDate(SampleValues(data, h))}

\* a rewrite that leaves a serial number (the next day) in the cell
ConvertRow_NextDay(row, dateColumns) ==
  [c \in DOMAIN row |->
     IF c \in dateColumns /\ row[c].t = "number"
       THEN Num(row[c].n + 1)
       ELSE row[c]]

\* the in-place rewrite of the number cells of the date columns
ConvertRow(row, dateColumns) ==
  [c \in DOMAIN row |->
     IF c \in dateColumns /\ row[c].t = "number"
       THEN Str(serialToDateStr(row[c].n))
       ELSE row[c]]

ConvertDates(data, dateColumns) ==
  IF dateColumns = {} THEN data
  ELSE ArrayOf([i \in 1..Len(data) |-> ConvertRow(data[i], dateColumns)])

RECURSIVE ClassifyLoop(_, _, _, _)
\* the for loop of step 2 from row i on: <<isNum, checkCount>>
ClassifyLoop(data, header, i, checkCount) ==
  IF i > Len(data) \/ i > SampleLimit THEN <<TRUE, checkCount>>
  ELSE LET val == Field(data[i], header)
       IN IF ~IsMissing(val)
            THEN IF IsNaN(ToNumber(val))
                   THEN <<FALSE, checkCount + 1>>
                   ELSE ClassifyLoop(data, header, i + 1, checkCount + 1)
            ELSE ClassifyLoop(data, header, i + 1, checkCount)

\* checkCount > 0 && isNum
IsNumericColumn(data, header) ==
  LET res == ClassifyLoop(data, header, 1, 0)
  IN res[2] > 0 /\ res[1]

\* Number(row[header]) || 0
NumericEntry(v) ==
  LET x == ToNumber(v) IN IF IsNaN(x) \/ x = RInt(0) THEN RInt(0) ELSE x

\* String(row[header] || "N/A")
CategoricalEntry(v) == IF Truthy(v) THEN JSToString(v) ELSE str_NA

(***************************************************************************)
(* Arithmetic on numbers that may be NaN or infinite (IEEE 754 rules).     *)
(***************************************************************************)
Sign(x) == IF x.num > 0 THEN 1 ELSE IF x.num < 0 THEN -1 ELSE 0

XAdd(a, b) ==
  IF IsFinite(a) /\ IsFinite(b) THEN RAdd(a, b)
  ELSE IF IsNaN(a) \/ IsNaN(b) THEN NaN
  ELSE IF IsFinite(a) THEN b
  ELSE IF IsFinite(b) THEN a
  ELSE IF a = b THEN a ELSE NaN

XSub(a, b) == XAdd(a, RNeg(b))

XMul(a, b) ==
  IF IsFinite(a) /\ IsFinite(b) THEN RMul(a, b)
  ELSE IF IsNaN(a) \/ IsNaN(b) \/ Sign(a) = 0 \/ Sign(b) = 0 THEN NaN
  ELSE IF Sign(a) = Sign(b) THEN Infinity ELSE NegInfinity

\* a / n for a positive integer n
XDivInt(a, n) == IF IsFinite(a) THEN Rat(a.num, a.den * n) ELSE a

\* a < b; false when either is NaN
XLt(a, b) ==
  IF IsNaN(a) \/ IsNaN(b) THEN FALSE
  ELSE IF IsFinite(a) /\ IsFinite(b) THEN RLt(a, b)
  ELSE IF IsFinite(a) THEN b = Infinity
  ELSE IF IsFinite(b) THEN a = NegInfinity
  ELSE a = NegInfinity /\ b = Infinity

RECURSIVE XSumRange(_, _, _)
\* s[lo] + ... + s[hi], formed by halves (the sum does not depend on the
\* order of the additions: the arithmetic is exact, and a sum that meets
\* both infinities is NaN in any order)
XSumRange(s, lo, hi) ==
  IF lo > hi THEN RInt(0)
  ELSE IF lo = hi THEN s[lo]
  ELSE LET mid == (lo + hi) \div 2
       IN XAdd(XSumRange(s, lo, mid), XSumRange(s, mid + 1, hi))

\* values.reduce((a, b) => a + b, 0)
XSum(s) == XSumRange(s, 1, Len(s))

\* Math.max(...values) of a non-empty list without NaN
XMax(s) == CHOOSE m \in Range(s) : \A x \in Range(s) : ~XLt(m, x)

\* Math.min(...values) of a non-empty list without NaN
XMin(s) == CHOOSE m \in Range(s) : \A x \in Range(s) : ~XLt(x, m)

\* the comparator (a, b) => a - b is negative
CmpNegative(a, b) == LET d == XSub(a, b) IN ~IsNaN(d) /\ Sign(d) < 0

CountOf(vs, k) == Cardinality({i \in DOMAIN vs : vs[i] = k})

RECURSIVE SortedRuns(_, _)
\* the values of rest in the comparator's order, each as often as it is in s
SortedRuns(s, rest) ==
  IF rest = {} THEN <<>>
  ELSE LET least == CHOOSE m \in rest : \A x \in rest : ~CmpNegative(x, m)
       IN [i \in 1..CountOf(s, least) |-> least] \o SortedRuns(s, rest \ {least})

\* [...values].sort((a, b) => a - b) for values without NaN: the comparator
\* ties only equal values, so the result is the one non-decreasing
\* arrangement of the values
SortX(s) == SortedRuns(s, Range(s))

RECURSIVE ISqrtFrom(_, _, _)
\* the largest r in lo..hi with r * r <= n
ISqrtFrom(n, lo, hi) ==
  IF lo = hi THEN lo
  ELSE LET mid == (lo + hi + 1) \div 2
       IN IF mid <= n \div mid THEN ISqrtFrom(n, mid, hi) ELSE ISqrtFrom(n, lo, mid - 1)

ISqrt(n) == IF n = 0 THEN 0 ELSE ISqrtFrom(n, 1, n)

\* floor(k * k * num / den) for 0 <= num, formed without a large product
ScaledFloor(num, den, k) ==
  LET q0 == num \div den
      r0 == num % den
      q1 == (k * r0) \div den
      r1 == (k * r0) % den
      q2 == (k * r1) \div den
  IN k * k * q0 + k * q1 + q2

\* parseFloat(Math.sqrt(x).toFixed(2)) for x >= 0, NaN or Infinity
RoundedSqrt(x) ==
  IF ~IsFinite(x) THEN x
  ELSE Rat((ISqrt(ScaledFloor(x.num, x.den, 200)) + 1) \div 2, 100)

\* parseFloat(x.toFixed(2)) for a number that may be NaN or infinite
XRound2(x) == IF IsFinite(x) THEN Rat(ToFixed2(x), 100) ELSE x

\* the median of the sorted copy
MedianOfSorted(sorted) ==
  LET half == Len(sorted) \div 2
  IN IF Len(sorted) % 2 = 1 THEN sorted[half + 1]
     ELSE XDivInt(XAdd(sorted[half], sorted[half + 1]), 2)

\* calculateMedian without the sort
calculateMedian_Unsorted(vals) ==
  IF Len(vals) = 0 THEN RInt(0) ELSE MedianOfSorted(vals)

calculateMedian(vals) ==
  IF Len(vals) = 0 THEN RInt(0) ELSE MedianOfSorted(SortX(vals))

\* the radicand of calculateStdDev: the mean of the squared deviations
AvgSquareDiff(vals, avg) ==
  XDivInt(XSum([i \in 1..Len(vals) |->
                  LET diff == XSub(vals[i], avg) IN XMul(diff, diff)]),
          Len(vals))

\* calculateStdDev returns Math.sqrt of the radicand; the result is kept as
\* its radicand, [sqrtOf |-> x]
calculateStdDev(vals, avg) ==
  IF Len(vals) = 0 THEN [sqrtOf |-> RInt(0)]
  ELSE [sqrtOf |-> AvgSquareDiff(vals, avg)]

\* one Numeric KPI, given the average before rounding
NumericKPIWith(col, vals, avg) ==
  [column |-> col,
   rawData |-> vals,
   min |-> XMin(vals),
   max |-> XMax(vals),
   avg |-> XRound2(avg),
   median |-> XRound2(calculateMedian(vals)),
   stdDev |-> RoundedSqrt(calculateStdDev(vals, avg).sqrtOf)]

NumericKPI(col, vals) == NumericKPIWith(col, vals, XDivInt(XSum(vals), Len(vals)))

\* a property name that is an array index: such keys are enumerated first,
\* in ascending numeric order
IsIndexKey(s) == IsDigits(s) /\ (Len(s) = 1 \/ s[1] # 48) /\ Len(s) <= 9

\* the k-th least of a set of positions
KthLeast(positions, k) ==
  CHOOSE i \in positions : Cardinality({j \in positions : j < i}) = k - 1

\* the values at the given positions, in the order of the positions
ValuesAt(vs, positions) ==
  ArrayOf([k \in 1..Cardinality(positions) |-> vs[KthLeast(positions, k)]])

\* the distinct values of vs in the order they are first met
FirstSeen(vs) ==
  ValuesAt(vs, {i \in DOMAIN vs : \A j \in 1..(i - 1) : vs[j] # vs[i]})

RECURSIVE InsertIndex(_, _)
InsertIndex(x, s) ==
  IF s = <<>> THEN <<x>>
  ELSE IF DigitsValue(x) < DigitsValue(s[1]) THEN <<x>> \o s
  ELSE <<s[1]>> \o InsertIndex(x, Tail(s))

RECURSIVE SortIndexFrom(_, _)
SortIndexFrom(s, acc) ==
  IF s = <<>> THEN acc ELSE SortIndexFrom(Tail(s), InsertIndex(s[1], acc))

\* insertion-ordered keys in Object.entries order: the index keys first
OrderKeys(seen) ==
  SortIndexFrom(SelectSeq(seen, IsIndexKey), <<>>)
    \o SelectSeq(seen, LAMBDA k : ~IsIndexKey(k))

\* the keys of the counts object in Object.entries order
CountKeys(vs) == OrderKeys(FirstSeen(vs))

RECURSIVE InsertByCount(_, _)
\* stable insertion for sort((a, b) => b[1] - a[1])
InsertByCount(x, s) ==
  IF s = <<>> THEN <<x>>
  ELSE IF x.count > s[1].count THEN <<x>> \o s
  ELSE <<s[1]>> \o InsertByCount(x, Tail(s))

RECURSIVE SortByCountFrom(_, _)
SortByCountFrom(s, acc) ==
  IF s = <<>> THEN acc ELSE SortByCountFrom(Tail(s), InsertByCount(s[1], acc))

TopLimit == 5

\* Object.entries(counts)
CountEntries(vs, keys) ==
  ArrayOf([i \in 1..Len(keys) |-> [name |-> keys[i], count |-> CountOf(vs, keys[i])]])

\* a Categorical KPI whose uniqueCount is the number of listed values
CategoricalKPIWith_CountsListed(col, sorted) ==
  [column |-> col,
   topValues |-> SubSeq(sorted, 1, IF Len(sorted) < TopLimit THEN Len(sorted) ELSE TopLimit),
   uniqueCount |-> IF Len(sorted) < TopLimit THEN Len(sorted) ELSE TopLimit]

\* one Categorical KPI, given the sorted entries
CategoricalKPIWith(col, sorted) ==
  [column |-> col,
   topValues |-> SubSeq(sorted, 1, IF Len(sorted) < TopLimit THEN Len(sorted) ELSE TopLimit),
   uniqueCount |-> Len(sorted)]

CategoricalKPI(col, vs) ==
  CategoricalKPIWith(col, SortByCountFrom(CountEntries(vs, CountKeys(vs)), <<>>))

\* numericCols[header] after the rows are pushed
NumericValues(data, header) ==
  ArrayOf([i \in 1..Len(data) |-> NumericEntry(Field(data[i], header))])

\* catCols[header] after the rows are pushed
CategoricalValues(data, header) ==
  ArrayOf([i \in 1..Len(data) |-> CategoricalEntry(Field(data[i], header))])

\* step 3 and the state set, given the headers of each kind
BuildKPIs(headers, data, numericHeaders, catHeaders) ==
  [numeric |-> [k \in 1..Len(numericHeaders) |->
                  NumericKPI(numericHeaders[k], NumericValues(data, numericHeaders[k]))],
   categorical |-> [k \in 1..Len(catHeaders) |->
                      CategoricalKPI(catHeaders[k], CategoricalValues(data, catHeaders[k]))],
   raw |-> data,
   headers |-> headers]

\* a variant of step 2 that leaves a column without a present value
\* unclassified
ClassifyColumns_DropsEmpty(headers, data) ==
  BuildKPIs(headers, data,
            SelectSeq(headers, LAMBDA h : IsNumericColumn(data, h)),
            SelectSeq(headers, LAMBDA h : ClassifyLoop(data, h, 1, 0)[2] > 0
                                            /\ ~IsNumericColumn(data, h)))

\* step 2 on the rows after the date conversion
ClassifyColumns(headers, data) ==
  BuildKPIs(headers, data,
            SelectSeq(headers, LAMBDA h : IsNumericColumn(data, h)),
            SelectSeq(headers, LAMBDA h : ~IsNumericColumn(data, h)))

\* classification of the rows as given, the date conversion after it
ConvertAndClassify_ClassifiesFirst(headers, data) ==
  [ClassifyColumns(headers, data) EXCEPT
     !.raw = ConvertDates(data, DateColumns(data, headers))]

\* step 1 and the in-place date conversion
ConvertAndClassify(headers, data) ==
  ClassifyColumns(headers, ConvertDates(data, DateColumns(data, headers)))

\* the state set by processData for a non-empty dataset; raw is the dataset
\* after the in-place date conversion
processData(data) == ConvertAndClassify(Keys(data[1]), data)

(***************************************************************************)
(* Natural numbers of any size, as little-endian sequences of limbs        *)
(* (digits to the base 2^15) without leading zero limbs.  They carry the   *)
(* significands of the binary64 arithmetic below.                          *)
(***************************************************************************)

Base == 2^15

RECURSIVE BNorm(_)
BNorm(a) ==
  IF a # <<>> /\ a[Len(a)] = 0 THEN BNorm(SubSeq(a, 1, Len(a) - 1)) ELSE a

RECURSIVE BFromInt(_)
BFromInt(n) == IF n = 0 THEN <<>> ELSE <<n % Base>> \o BFromInt(n \div Base)

Limb(a, i) == IF i <= Len(a) THEN a[i] ELSE 0

RECURSIVE BAddFrom(_, _, _, _)
\* the limbs i, i+1, ... of a + b + carry
BAddFrom(a, b, i, carry) ==
  IF i > Len(a) /\ i > Len(b)
    THEN (IF carry = 0 THEN <<>> ELSE <<carry>>)
    ELSE <<(Limb(a, i) + Limb(b, i) + carry) % Base>>
           \o BAddFrom(a, b, i + 1, (Limb(a, i) + Limb(b, i) + carry) \div Base)

BAdd(a, b) == BAddFrom(a, b, 1, 0)

RECURSIVE BSubFrom(_, _, _, _)
\* the limbs i, i+1, ... of a - b - borrow, for a >= b
BSubFrom(a, b, i, borrow) ==
  IF i > Len(a) THEN <<>>
  ELSE <<(Limb(a, i) - Limb(b, i) - borrow) % Base>>
         \o BSubFrom(a, b, i + 1,
                     IF Limb(a, i) - Limb(b, i) - borrow < 0 THEN 1 ELSE 0)

BSub(a, b) == BNorm(BSubFrom(a, b, 1, 0))

RECURSIVE BLessFrom(_, _, _)
\* a < b by the limbs i, i-1, ..., for a and b of the same length
BLessFrom(a, b, i) ==
  IF i = 0 THEN FALSE
  ELSE IF a[i] # b[i] THEN a[i] < b[i]
  ELSE BLessFrom(a, b, i - 1)

BLess(a, b) ==
  IF Len(a) # Len(b) THEN Len(a) < Len(b) ELSE BLessFrom(a, b, Len(a))

RECURSIVE BMulSmallFrom(_, _, _, _)
\* the limbs i, i+1, ... of a * d + carry, for 0 <= d < Base
BMulSmallFrom(a, d, i, carry) ==
  IF i > Len(a) THEN (IF carry = 0 THEN <<>> ELSE <<carry>>)
  ELSE <<(a[i] * d + carry) % Base>>
         \o BMulSmallFrom(a, d, i + 1, (a[i] * d + carry) \div Base)

BMulSmall(a, d) == BNorm(BMulSmallFrom(a, d, 1, 0))

RECURSIVE BMulFrom(_, _, _)
\* a * (the limbs j, j+1, ... of b)
BMulFrom(a, b, j) ==
  IF j > Len(b) THEN <<>>
  ELSE BAdd(BMulSmall(a, b[j]), <<0>> \o BMulFrom(a, b, j + 1))

BMul(a, b) == BNorm(BMulFrom(a, b, 1))

\* a * 2^k
BShl(a, k) ==
  IF a = <<>> THEN <<>>
  ELSE [i \in 1..(k \div 15) |-> 0] \o BMulSmall(a, 2^(k % 15))

\* floor(a / 2^k)
BShr(a, k) ==
  LET drop == k \div 15
      low == 2^(k % 15)
      high == 2^(15 - (k % 15))
  IN BNorm([i \in 1..(IF Len(a) > drop THEN Len(a) - drop ELSE 0) |->
              (a[i + drop] \div low) + (Limb(a, i + drop + 1) % low) * high])

RECURSIVE SmallBitLen(_)
SmallBitLen(n) == IF n = 0 THEN 0 ELSE 1 + SmallBitLen(n \div 2)

\* the number of binary digits of a
BitLen(a) ==
  IF a = <<>> THEN 0 ELSE 15 * (Len(a) - 1) + SmallBitLen(a[Len(a)])

BIsOdd(a) == a # <<>> /\ a[1] % 2 = 1

(***************************************************************************)
(* JavaScript numbers as IEEE 754 binary64 values.  A finite number is     *)
(* s * m * 2^e with sign s and a significand m of exactly 53 binary        *)
(* digits; zero has s = 0 (the sign of zero is not kept: -0 === 0).  NaN   *)
(* and the infinities have an empty significand and e = 1.  Every          *)
(* operation rounds its exact result to the nearest number, ties to even;  *)
(* results above the largest number become infinite, and results below     *)
(* 2^-1022 (subnormal numbers) are outside the model.                      *)
(***************************************************************************)
Precision == 53
MaxExponent == 1024

Zero64 == [s |-> 0, m |-> <<>>, e |-> 0]
NaN64 == [s |-> 0, m |-> <<>>, e |-> 1]
Inf64(s) == [s |-> s, m |-> <<>>, e |-> 1]

IsFinite64(x) == x.m # <<>> \/ x.e = 0
IsNaN64(x) == x = NaN64

\* s * m * 2^e for a significand of at most Precision digits, or 2^Precision
Pack(s, m, e) ==
  LET up == Precision - BitLen(m)
  IN IF e - up + Precision > MaxExponent THEN Inf64(s)
     ELSE IF up < 0 THEN [s |-> s, m |-> BShr(m, 1), e |-> e + 1]
     ELSE [s |-> s, m |-> BShl(m, up), e |-> e - up]

\* round to nearest, ties to even: q is m without its last d digits, r the
\* value of those digits
RoundNearestEven(q, r, half) ==
  IF BLess(half, r) \/ (r = half /\ BIsOdd(q)) THEN BAdd(q, <<1>>) ELSE q

RoundShifted(s, m, e, d, q) ==
  Pack(s, RoundNearestEven(q, BSub(m, BShl(q, d)), BShl(<<1>>, d - 1)), e + d)

\* the number nearest to s * m * 2^e
Round64(s, m, e) ==
  IF m = <<>> THEN Zero64
  ELSE IF BitLen(m) <= Precision THEN Pack(s, m, e)
  ELSE RoundShifted(s, m, e, BitLen(m) - Precision, BShr(m, BitLen(m) - Precision))

\* an integer as a number
FromInt64(n) == Round64(IF n < 0 THEN -1 ELSE 1, BFromInt(IF n < 0 THEN -n ELSE n), 0)

Neg64(x) == [x EXCEPT !.s = -x.s]

\* sa * a * 2^e + sb * b * 2^e
AddAligned(sa, a, sb, b, e) ==
  IF sa = sb THEN Round64(sa, BAdd(a, b), e)
  ELSE IF a = b THEN Zero64
  ELSE IF BLess(a, b) THEN Round64(sb, BSub(b, a), e)
  ELSE Round64(sa, BSub(a, b), e)

AddFinite(x, y, e) ==
  AddAligned(x.s, BShl(x.m, x.e - e), y.s, BShl(y.m, y.e - e), e)

\* x + y
Add64(x, y) ==
  IF IsNaN64(x) \/ IsNaN64(y) THEN NaN64
  ELSE IF ~IsFinite64(x) THEN (IF ~IsFinite64(y) /\ y.s # x.s THEN NaN64 ELSE x)
  ELSE IF ~IsFinite64(y) THEN y
  ELSE IF x.s = 0 THEN y
  ELSE IF y.s = 0 THEN x
  ELSE AddFinite(x, y, IF x.e < y.e THEN x.e ELSE y.e)

\* x - y
Sub64(x, y) == Add64(x, Neg64(y))

\* x * y
Mul64(x, y) ==
  IF IsNaN64(x) \/ IsNaN64(y) THEN NaN64
  ELSE IF x.s = 0 \/ y.s = 0
    THEN (IF IsFinite64(x) /\ IsFinite64(y) THEN Zero64 ELSE NaN64)
  ELSE IF ~IsFinite64(x) \/ ~IsFinite64(y) THEN Inf64(x.s * y.s)
  ELSE Round64(x.s * y.s, BMul(x.m, y.m), x.e + y.e)

RECURSIVE DivLoop(_, _, _)
\* the quotient q of a long division, digit by binary digit until it has
\* Precision + 4 digits, and the remainder r that is left
DivLoop(r, d, q) ==
  IF BitLen(q) = Precision + 4 THEN [q |-> q, r |-> r]
  ELSE IF BLess(BMulSmall(r, 2), d)
    THEN DivLoop(BMulSmall(r, 2), d, BMulSmall(q, 2))
    ELSE DivLoop(BSub(BMulSmall(r, 2), d), d, BAdd(BMulSmall(q, 2), <<1>>))

\* the digits of qr.q and one more, set when the remainder is not zero
Sticky(qr) == BAdd(BMulSmall(qr.q, 2), IF qr.r = <<>> THEN <<>> ELSE <<1>>)

\* m / d to Precision + 5 digits, for m <= d < 2 m: the quotient starts
\* with the digit 1
DivScaled(s, m, d, e) ==
  Round64(s, Sticky(DivLoop(BSub(m, d), d, <<1>>)), e - (Precision + 4))

DivFinite(x, y) ==
  IF BLess(x.m, y.m)
    THEN DivScaled(x.s * y.s, BMulSmall(x.m, 2), y.m, x.e - y.e - 1)
    ELSE DivScaled(x.s * y.s, x.m, y.m, x.e - y.e)

\* x / y
Div64(x, y) ==
  IF IsNaN64(x) \/ IsNaN64(y) THEN NaN64
  ELSE IF ~IsFinite64(x) THEN (IF IsFinite64(y) THEN x ELSE NaN64)
  ELSE IF ~IsFinite64(y) THEN Zero64
  ELSE IF y.s = 0 THEN (IF x.s = 0 THEN NaN64 ELSE Inf64(x.s))
  ELSE IF x.s = 0 THEN Zero64
  ELSE DivFinite(x, y)

RECURSIVE SqrtLoop(_, _, _)
\* the integer square root by binary digits, from the digit of weight 2^b
\* down, and the remainder
SqrtLoop(n, root, b) ==
  IF b < 0 THEN [q |-> root, r |-> n]
  ELSE IF BLess(n, BAdd(root, BShl(<<1>>, b)))
    THEN SqrtLoop(n, BShr(root, 1), b - 2)
    ELSE SqrtLoop(BSub(n, BAdd(root, BShl(<<1>>, b))),
                  BAdd(BShr(root, 1), BShl(<<1>>, b)), b - 2)

\* the square root of m * 2^e, where e is even and m has 110 or 111 digits
SqrtScaled(m, e) ==
  Round64(1, Sticky(SqrtLoop(m, <<>>, 2 * ((BitLen(m) - 1) \div 2))), (e \div 2) - 1)

SqrtFinite(x, shift) == SqrtScaled(BShl(x.m, shift), x.e - shift)

\* Math.sqrt(x)
Sqrt64(x) ==
  IF IsNaN64(x) \/ x.s < 0 THEN NaN64
  ELSE IF x.s = 0 \/ ~IsFinite64(x) THEN x
  ELSE SqrtFinite(x, Precision + 4 + ((x.e - (Precision + 4)) % 2))

(***************************************************************************)
(* calculateCorrelation and calculateStdDev on binary64 numbers, every     *)
(* operation rounded as the code performs it.                              *)
(***************************************************************************)
\* an array of integers as an array of numbers
Doubles(s) == ArrayOf([i \in DOMAIN s |-> FromInt64(s[i])])

RECURSIVE SumFrom64(_, _, _)
\* s.reduce((a, b) => a + b, acc) from index i on
SumFrom64(s, i, acc) ==
  IF i > Len(s) THEN acc ELSE SumFrom64(s, i + 1, Add64(acc, s[i]))

\* s.reduce((a, b) => a + b, 0)
Sum64(s) == SumFrom64(s, 1, Zero64)

\* the terms x[i] * y[i] that x.reduce((sum, xi, i) => sum + xi * y[i], 0) adds
Products64(x, y) == ArrayOf([i \in DOMAIN x |-> Mul64(x[i], y[i])])

\* if (denominator === 0) return 0; return numerator / denominator
CorrelationOf(numerator, denominator) ==
  IF denominator = Zero64 THEN Zero64 ELSE Div64(numerator, denominator)

\* numerator and denominator from the five sums; sumX ** 2 is taken as the
\* correctly rounded square
Correlate(n, sumX, sumY, sumXY, sumX2, sumY2) ==
  CorrelationOf(Sub64(Mul64(n, sumXY), Mul64(sumX, sumY)),
                Sqrt64(Mul64(Sub64(Mul64(n, sumX2), Mul64(sumX, sumX)),
                             Sub64(Mul64(n, sumY2), Mul64(sumY, sumY)))))

calculateCorrelation(x, y) ==
  IF Len(x) # Len(y) \/ Len(x) = 0 THEN Zero64
  ELSE Correlate(FromInt64(Len(x)), Sum64(x), Sum64(y), Sum64(Products64(x, y)),
                 Sum64(Products64(x, x)), Sum64(Products64(y, y)))

\* const diff = value - avg; return diff * diff
SquareDiff64(value, avg) == Mul64(Sub64(value, avg), Sub64(value, avg))

SquareDiffs64(vals, avg) == ArrayOf([i \in DOMAIN vals |-> SquareDiff64(vals[i], avg)])

\* calculateStdDev with the rounding of every step
calculateStdDev64(vals, avg) ==
  IF Len(vals) = 0 THEN Zero64
  ELSE Sqrt64(Div64(Sum64(SquareDiffs64(vals, avg)), FromInt64(Len(vals))))

(***************************************************************************)
(* State machine.  The input of a call is built first (pc = "input"); a    *)
(* call computes its whole result in one step.                             *)
(***************************************************************************)
NotCalled == [called |-> FALSE]

SeriesValues == 1..5
ColumnLabels == {"amount"}

Init ==
  /\ pc = "input"
  /\ values = <<>>
  /\ trendOut = NotCalled
  /\ insightsOut = NotCalled
  /\ json = <<>>
  /\ blocks = 0
  /\ pivotArgs = NotCalled
  /\ pivotOut = NotCalled
  /\ analyticsData = NotCalled
  /\ ys = <<>>
  /\ statOut = NotCalled
  /\ appState = "upload"
  /\ rawJSON = <<>>
  /\ cleanData = <<>>
  /\ reads = {}
  /\ selected = "none"
  /\ viewData = <<>>
  /\ viewHeaders = <<>>
  /\ selectedCol = "null"
  /\ history = <<>>
  /\ request = [count |-> 0, applied |-> FALSE]

\* one more value in the series (a KPI's rawData grows with the rows)
PushValue ==
  /\ pc = "input"
  /\ Len(values) < MaxLen
  /\ \E v \in SeriesValues : values' = Append(values, v)
  /\ UNCHANGED <<appVars, pc, trendOut, insightsOut, json, blocks, pivotArgs, pivotOut, analyticsData, ys, statOut>>

CalculateTrend ==
  /\ pc = "input"
  /\ trendOut' = calculateTrend(values)
  /\ pc' = "calculateTrend"
  /\ UNCHANGED <<appVars, values, insightsOut, json, blocks, pivotArgs, pivotOut, analyticsData, ys, statOut>>

GenerateInsights ==
  /\ pc = "input"
  /\ \E colName \in ColumnLabels : insightsOut' = generateInsights(colName, values)
  /\ pc' = "generateInsights"
  /\ UNCHANGED <<appVars, values, trendOut, json, blocks, pivotArgs, pivotOut, analyticsData, ys, statOut>>

(***************************************************************************)
(* Datasets handed to performPivot: rows over region, kind and amount.     *)
(***************************************************************************)
str_A == <<65>>
str_B == <<66>>
str_K == <<75>>
str_x == <<120>>
str_10 == <<49, 48>>

PivotRowValues ==
  { [region |-> Str(str_A), amount |-> Num(10)],
    [region |-> Str(str_A), amount |-> Num(20)],
    [region |-> Str(str_B), amount |-> Num(5)],
    [region |-> Str(str_B), kind |-> Num(10), amount |-> Str(str_x)],
    [region |-> Str(<<>>), kind |-> Num(9), amount |-> Num(1)],
    [region |-> Null, kind |-> Num(9), amount |-> Num(-4)],
    [region |-> Str(str_A), kind |-> Str(str_K)],
    [region |-> Str(str_B), kind |-> Str(str_10), amount |-> Num(3)] }

Dimensions == {"None", "region", "kind"}
ValueDimensions == {"amount", "region"}
Functions == {"Sum", "Average", "Count", "Max", "Min"}

\* one more row in the dataset
AddRow ==
  /\ pc = "input"
  /\ Len(json) < MaxRows
  /\ \E row \in PivotRowValues : json' = Append(json, row)
  /\ blocks' = blocks + 1
  /\ UNCHANGED <<appVars, pc, values, trendOut, insightsOut, pivotArgs, pivotOut, analyticsData, ys, statOut>>

\* PivotView's useMemo: no call on an empty dataset
PerformPivot ==
  /\ pc = "input"
  /\ Len(json) > 0
  /\ \E rowDim \in Dimensions, colDim \in Dimensions,
        valDim \in ValueDimensions, func \in Functions :
       /\ pivotArgs' = [rowDim |-> rowDim, colDim |-> colDim,
                        valDim |-> valDim, func |-> func]
       /\ pivotOut' = performPivot(json, rowDim, colDim, valDim, func)
  /\ pc' = "performPivot"
  /\ UNCHANGED <<appVars, values, trendOut, insightsOut, json, blocks, analyticsData, ys, statOut>>

NextPivot == AddRow \/ PerformPivot

SpecPivot == Init /\ [][NextPivot]_vars

(***************************************************************************)
(* Datasets handed to processData: rows over the columns p and q, added in *)
(* blocks of equal rows.  Column p carries small numbers, numeric and      *)
(* other strings and missing cells; column q carries a date serial or text.*)
(***************************************************************************)
str_7 == <<55>>
str_space == <<32>>
DateSerial == 44927       \* 2023-01-01 as a spreadsheet serial

ProfileRowValues ==
  { [p |-> Num(5), q |-> Str(str_x)],
    [p |-> Str(str_7), q |-> Num(DateSerial)],
    [p |-> Str(str_x), q |-> Num(DateSerial)],
    [p |-> Str(str_Infinity), q |-> Str(str_x)],
    [p |-> Str(<<>>), q |-> Num(DateSerial)],
    [q |-> Str(str_x)],
    [p |-> Null, q |-> Str(str_x)],
    [p |-> Str(str_space), q |-> Str(str_x)],
    [p |-> Num(0), q |-> Num(DateSerial)] }

BlockSizes == {1, SampleLimit}

\* a block of k equal rows at the end of the sheet
AppendRows ==
  /\ pc = "input"
  /\ blocks < MaxBlocks
  /\ \E row \in ProfileRowValues, k \in BlockSizes :
       json' = json \o [i \in 1..k |-> row]
  /\ blocks' = blocks + 1
  /\ UNCHANGED <<appVars, pc, values, trendOut, insightsOut, pivotArgs, pivotOut, analyticsData, ys, statOut>>

\* processData(json): returns at once on an empty dataset
ProcessData ==
  /\ pc = "input"
  /\ Len(json) > 0
  /\ analyticsData' = processData(json)
  /\ json' = analyticsData'.raw
  /\ pc' = "processData"
  /\ UNCHANGED <<appVars, values, trendOut, insightsOut, blocks, pivotArgs, pivotOut, ys, statOut>>

NextProfile == AppendRows \/ ProcessData

SpecProfile == Init /\ [][NextProfile]_vars

NextTrend == PushValue \/ CalculateTrend \/ GenerateInsights

SpecTrend == Init /\ [][NextTrend]_vars

(***************************************************************************)
(* Claims about calculateTrend and generateInsights (SpecTrend).           *)
(***************************************************************************)
LastOrZero(s) == IF s = <<>> THEN 0 ELSE s[Len(s)]

\* the direction a caller reads off the returned object, under either of the
\* two property names the function uses for it
DirectionOf(t) ==
  IF "trendDirection" \in DOMAIN t THEN t.trendDirection ELSE Prop(t, "trend")

InsightsOfType(ty) ==
  SelectSeq(insightsOut.insights, LAMBDA i : i.type = ty)

RECURSIVE RSum(_)
RSum(s) == IF s = <<>> THEN RInt(0) ELSE RAdd(s[1], RSum(Tail(s)))

\* the residual of the fitted line at point i (x = i - 1)
Residual(t, i) ==
  RSub(RInt(values[i]), RAdd(RMul(t.slope, RInt(i - 1)), t.intercept))

\* C8: calculateTrend on a series with fewer than 2 values returns slope 0,
\* a forecast equal to the last value of the series (0 when the series is
\* empty) and the direction stable.
C8_DegenerateTrend ==
  (pc = "calculateTrend" /\ Len(values) < 2) =>
    /\ Prop(trendOut, "slope") = RInt(0)
    /\ Prop(trendOut, "nextVal") = RInt(LastOrZero(values))
    /\ DirectionOf(trendOut) = "stable"

\* C9: for a series of any length generateInsights emits a trend insight
\* only when the direction is increasing or decreasing (never for a stable
\* or degenerate series), exactly one forecast insight, and an anomaly
\* insight if and only if detectAnomalies returned at least one value.
C9_InsightComposition ==
  pc = "generateInsights" =>
    /\ \A k \in DOMAIN InsightsOfType("trend") :
         /\ Len(values) >= 2
         /\ InsightsOfType("trend")[k].text.direction \in {"increasing", "decreasing"}
    /\ Len(InsightsOfType("trend")) <= 1
    /\ Len(InsightsOfType("prediction")) = 1
    /\ Len(InsightsOfType("anomaly")) = (IF Len(detectAnomalies(values)) > 0 THEN 1 ELSE 0)

\* C10: for a series of n >= 2 values calculateTrend returns the ordinary
\* least squares line of the values against x = 0..n-1 (the line whose
\* residuals sum to zero and are orthogonal to x), the forecast
\* slope * n + intercept, and the direction increasing if slope > 0.05,
\* decreasing if slope < -0.05, stable otherwise; [1,2,3,4,5] gives slope 1,
\* increasing, forecast 6 and [5,5,5,5] gives stable, forecast 5.
C10_LeastSquaresTrend ==
  (pc = "calculateTrend" /\ Len(values) >= 2) =>
    LET n == Len(values)
        t == trendOut
    IN /\ DOMAIN t = {"slope", "intercept", "nextVal", "trendDirection"}
       /\ RSum([i \in 1..n |-> Residual(t, i)]) = RInt(0)
       /\ RSum([i \in 1..n |-> RMul(RInt(i - 1), Residual(t, i))]) = RInt(0)
       /\ RSub(t.nextVal, t.intercept) = RMul(t.slope, RInt(n))
       /\ t.trendDirection = "increasing" <=> 20 * t.slope.num > t.slope.den
       /\ t.trendDirection = "decreasing" <=> 20 * t.slope.num < -t.slope.den
       /\ t.trendDirection \in {"increasing", "decreasing", "stable"}
       /\ values = <<1, 2, 3, 4, 5>> =>
            t.slope = RInt(1) /\ t.trendDirection = "increasing" /\ t.nextVal = RInt(6)
       /\ values = <<5, 5, 5, 5>> =>
            t.trendDirection = "stable" /\ t.nextVal = RInt(5)

\* C10 witness: the trend of [1,2,3,4,5] has been computed and is increasing.
C10_Witness ==
  /\ pc = "calculateTrend"
  /\ values = <<1, 2, 3, 4, 5>>
  /\ Prop(trendOut, "trendDirection") = "increasing"

(***************************************************************************)
(* Claims about performPivot (SpecPivot).  The reference definitions below *)
(* are written from the dataset and the arguments, not from the locals of  *)
(* performPivot.                                                           *)
(***************************************************************************)
\* a field that is absent, null or the empty string
Absent(v) == v = Undef \/ v = Null \/ v = Str(<<>>)

\* a row the pivot must drop: a real dimension whose field is absent
Dropped(row, a) ==
  \/ a.rowDim # "None" /\ Absent(Field(row, a.rowDim))
  \/ a.colDim # "None" /\ Absent(Field(row, a.colDim))

Kept(a) == {i \in DOMAIN json : ~Dropped(json[i], a)}

RefKey(row, dim) == IF dim = "None" THEN Str(str_Total) ELSE Field(row, dim)

\* a reading that takes part in the aggregation
Eligible(a, v) == a.func = "Count" \/ v.t = "number"

\* the readings of the kept rows whose keys read r and c, in row order
RefBucket(a, r, c) ==
  LET InBucket(row) ==
        /\ ~Dropped(row, a)
        /\ JSToString(RefKey(row, a.rowDim)) = r
        /\ JSToString(RefKey(row, a.colDim)) = c
        /\ Eligible(a, Field(row, a.valDim))
      rows == SelectSeq(json, InBucket)
  IN [i \in 1..Len(rows) |-> Field(rows[i], a.valDim)]

\* the (row key, column key) pairs that have a bucket
BucketPairs(valuesMap) ==
  UNION {{<<r, c>> : c \in DOMAIN valuesMap[r]} : r \in DOMAIN valuesMap}

RECURSIVE TotalSize(_, _)
\* the number of values held by the buckets of the pairs ps
TotalSize(valuesMap, ps) ==
  IF ps = {} THEN 0
  ELSE LET q == CHOOSE q \in ps : TRUE
       IN Len(valuesMap[q[1]][q[2]]) + TotalSize(valuesMap, ps \ {q})

\* a <= b on strings, lexicographic on code units
LexLeq(a, b) ==
  \E k \in 0..Len(a) :
    /\ k <= Len(b)
    /\ \A j \in 1..k : a[j] = b[j]
    /\ \/ k = Len(a)
       \/ k < Len(b) /\ a[k + 1] < b[k + 1]

NonDecreasing(keys) ==
  \A i, j \in DOMAIN keys : i < j => LexLeq(JSToString(keys[i]), JSToString(keys[j]))

NoRepeat(keys) == \A i, j \in DOMAIN keys : keys[i] = keys[j] => i = j

\* C3: performPivot ignores a row entirely exactly when a non-sentinel row
\* or column dimension has an absent, null or empty field in that row (the
\* two dimensions independently); a "None" dimension never drops a row and
\* resolves to the key "Total".  So the keys and the buckets are those of
\* the rows that are not dropped, and under Count each such row adds one value.
C3_SkipMissingDimension ==
  pc = "performPivot" =>
    LET a == pivotArgs
        out == pivotOut
    IN /\ Range(out.rowKeys) = {RefKey(json[i], a.rowDim) : i \in Kept(a)}
       /\ Range(out.colKeys) = {RefKey(json[i], a.colDim) : i \in Kept(a)}
       /\ BucketPairs(out.valuesMap) =
            {<<JSToString(RefKey(json[i], a.rowDim)), JSToString(RefKey(json[i], a.colDim))>> :
               i \in Kept(a)}
       /\ a.rowDim = "None" => Range(out.rowKeys) \subseteq {Str(str_Total)}
       /\ a.colDim = "None" => Range(out.colKeys) \subseteq {Str(str_Total)}
       /\ a.func = "Count" =>
            TotalSize(out.valuesMap, BucketPairs(out.valuesMap)) = Cardinality(Kept(a))

\* C3 witness: a row whose row-dimension field is empty but whose
\* column-dimension field is present was dropped while another row was kept.
C3_Witness ==
  /\ pc = "performPivot"
  /\ pivotArgs.rowDim = "region" /\ pivotArgs.colDim = "kind"
  /\ \E i \in DOMAIN json :
       /\ Absent(Field(json[i], "region"))
       /\ ~Absent(Field(json[i], "kind"))
       /\ Field(json[i], "kind") \notin Range(pivotOut.colKeys)
  /\ pivotOut.rowKeys # <<>>

\* C4: under Count every reading of a row that is not dropped is added to
\* the row's bucket whatever its type (missing readings included); under
\* Sum, Average, Max and Min only numeric readings are added, the others are
\* left out and not turned into 0.
C4_BucketContents ==
  pc = "performPivot" =>
    \A p \in BucketPairs(pivotOut.valuesMap) :
      pivotOut.valuesMap[p[1]][p[2]] = RefBucket(pivotArgs, p[1], p[2])

\* C4 witness: under Sum a kept row with a non-numeric reading left its
\* bucket empty, and the bucket exists.
C4_Witness ==
  /\ pc = "performPivot"
  /\ pivotArgs.func = "Sum"
  /\ \E i \in Kept(pivotArgs) :
       /\ Field(json[i], pivotArgs.valDim).t = "string"
       /\ \E p \in BucketPairs(pivotOut.valuesMap) :
            /\ p[1] = JSToString(RefKey(json[i], pivotArgs.rowDim))
            /\ p[2] = JSToString(RefKey(json[i], pivotArgs.colDim))
            /\ pivotOut.valuesMap[p[1]][p[2]] = <<>>

\* the numbers of a bucket, as a sequence of integers
NumsOf(bucket) == [i \in 1..Len(bucket) |-> bucket[i].n]

\* the reference aggregate of a non-empty bucket, as an exact rational
RefAggregate(func, bucket) ==
  CASE func = "Count" -> RInt(Len(bucket))
    [] func = "Sum" -> RInt(SumSeq(NumsOf(bucket)))
    [] func = "Average" -> Rat(SumSeq(NumsOf(bucket)), Len(bucket))
    [] func = "Max" ->
         RInt(CHOOSE m \in Range(NumsOf(bucket)) : \A x \in Range(NumsOf(bucket)) : x <= m)
    [] func = "Min" ->
         RInt(CHOOSE m \in Range(NumsOf(bucket)) : \A x \in Range(NumsOf(bucket)) : m <= x)

RAbs(r) == [num |-> Abs(r.num), den |-> r.den]

\* x is a multiple of 0.01 and no further than 0.005 from y
IsRounded2(x, y) ==
  /\ 100 % x.den = 0
  /\ ~RLt(Rat(1, 200), RAbs(RSub(x, y)))

region_A == Str(str_A)
region_B == Str(str_B)

\* the example of the claim: region A/10, A/20, B/5
ExampleRows ==
  << [region |-> region_A, amount |-> Num(10)],
     [region |-> region_A, amount |-> Num(20)],
     [region |-> region_B, amount |-> Num(5)] >>

ExampleArgs == [rowDim |-> "region", colDim |-> "None", valDim |-> "amount", func |-> "Sum"]

ExampleHolds ==
  (json = ExampleRows /\ pivotArgs = ExampleArgs) =>
    /\ pivotOut.rowKeys = <<region_A, region_B>>
    /\ pivotOut.colKeys = <<Str(str_Total)>>
    /\ pivotOut.grid[str_A][str_Total] = RInt(30)
    /\ pivotOut.grid[str_B][str_Total] = RInt(5)

\* C5 as claimed: every grid cell of a non-empty bucket equals the
\* reference aggregate of its bucket (Sum the arithmetic sum, Average the
\* arithmetic mean, Count the bucket size, Max and Min the extrema), and the
\* example gives rowKeys [A, B], colKeys [Total], A/Total = 30, B/Total = 5.
C5_GridEqualsAggregate ==
  pc = "performPivot" =>
    /\ \A r \in DOMAIN pivotOut.grid : \A c \in DOMAIN pivotOut.grid[r] :
         RefBucket(pivotArgs, r, c) # <<>> =>
           pivotOut.grid[r][c] = RefAggregate(pivotArgs.func, RefBucket(pivotArgs, r, c))
    /\ ExampleHolds

\* C5 amended: every grid cell of a non-empty bucket equals the reference
\* aggregate of its bucket rounded to 2 decimal places, and the example
\* gives rowKeys [A, B], colKeys [Total], A/Total = 30, B/Total = 5.
C5_GridEqualsRoundedAggregate ==
  pc = "performPivot" =>
    /\ \A r \in DOMAIN pivotOut.grid : \A c \in DOMAIN pivotOut.grid[r] :
         RefBucket(pivotArgs, r, c) # <<>> =>
           IsRounded2(pivotOut.grid[r][c],
                      RefAggregate(pivotArgs.func, RefBucket(pivotArgs, r, c)))
    /\ ExampleHolds

\* C5 witness: the Average of the bucket [10, 20, 5] is reported as 11.67.
C5_Witness ==
  /\ pc = "performPivot"
  /\ json = ExampleRows
  /\ pivotArgs = [ExampleArgs EXCEPT !.rowDim = "None", !.func = "Average"]
  /\ pivotOut.grid[str_Total][str_Total] = Rat(1167, 100)

\* a JavaScript number of the model that is finite
IsNumber(x) == DOMAIN x = {"num", "den"} /\ x.num \in Int /\ x.den \in Nat \ {0}

\* C6: the grid is dense and total: for every returned row key r and column
\* key c, grid[r][c] exists and is a number, it is 0 when no row fell in the
\* bucket or the bucket holds no eligible value, and a value column with no
\* numeric data under Sum, Average, Max or Min gives an all-zero grid.
C6_DenseGrid ==
  pc = "performPivot" =>
    \A rk \in Range(pivotOut.rowKeys), ck \in Range(pivotOut.colKeys) :
      LET r == JSToString(rk)
          c == JSToString(ck)
      IN /\ r \in DOMAIN pivotOut.grid
         /\ c \in DOMAIN pivotOut.grid[r]
         /\ IsNumber(pivotOut.grid[r][c])
         /\ RefBucket(pivotArgs, r, c) = <<>> => pivotOut.grid[r][c] = RInt(0)
         /\ ( /\ pivotArgs.func # "Count"
              /\ \A i \in DOMAIN json : Field(json[i], pivotArgs.valDim).t # "number" )
            => pivotOut.grid[r][c] = RInt(0)

\* C6 witness: a pair of returned keys that no row has together reads 0.
C6_Witness ==
  /\ pc = "performPivot"
  /\ \E rk \in Range(pivotOut.rowKeys), ck \in Range(pivotOut.colKeys) :
       /\ <<JSToString(rk), JSToString(ck)>> \notin BucketPairs(pivotOut.valuesMap)
       /\ pivotOut.grid[JSToString(rk)][JSToString(ck)] = RInt(0)

\* C7: rowKeys and colKeys each hold exactly the keys observed on the rows
\* that are not dropped, each once, in ascending lexicographic order of the
\* keys' string forms.
C7_SortedKeys ==
  pc = "performPivot" =>
    /\ Range(pivotOut.rowKeys) = {RefKey(json[i], pivotArgs.rowDim) : i \in Kept(pivotArgs)}
    /\ Range(pivotOut.colKeys) = {RefKey(json[i], pivotArgs.colDim) : i \in Kept(pivotArgs)}
    /\ NoRepeat(pivotOut.rowKeys) /\ NoRepeat(pivotOut.colKeys)
    /\ NonDecreasing(pivotOut.rowKeys) /\ NonDecreasing(pivotOut.colKeys)

\* C7 witness: the numeric keys 9 and 10 are returned as [10, 9], the order
\* of their strings.
C7_Witness ==
  /\ pc = "performPivot"
  /\ pivotOut.colKeys = <<Num(10), Num(9)>>
  /\ json[1].kind = Num(9)

(***************************************************************************)
(* Claims about the classification of columns by processData               *)
(* (SpecProfile).  After the call, json is the dataset as classified.      *)
(***************************************************************************)
NumericColumns == {analyticsData.numeric[k].column : k \in DOMAIN analyticsData.numeric}

CategoricalColumns ==
  {analyticsData.categorical[k].column : k \in DOMAIN analyticsData.categorical}

\* the rows the classification inspects
InspectedRows == 1..(IF Len(json) < 50 THEN Len(json) ELSE 50)

\* the present values of a column among the inspected rows
PresentValues(h) ==
  {Field(json[i], h) : i \in {j \in InspectedRows : ~Absent(Field(json[j], h))}}

\* C1: after processData classifies a non-empty dataset, every column name
\* that is a key of row 0 is in exactly one of the Numeric and the
\* Categorical column sets: none is in both and none is in neither.
C1_ColumnPartition ==
  pc = "processData" =>
    \A h \in DOMAIN json[1] :
      /\ h \in NumericColumns \cup CategoricalColumns
      /\ ~(h \in NumericColumns /\ h \in CategoricalColumns)

\* a classified dataset of several rows with a column of each kind
C1_Witness ==
  /\ pc = "processData"
  /\ Len(json) > 1
  /\ DOMAIN json[1] = {"p", "q"}
  /\ "p" \in NumericColumns
  /\ "q" \in CategoricalColumns

\* C2: a column is classified Numeric if and only if, among the first
\* min(50, rowCount) rows, at least one value is present and every present
\* value converts to a finite number; every other column is Categorical.
C2_NumericIffFinite ==
  pc = "processData" =>
    \A h \in DOMAIN json[1] :
      /\ h \in NumericColumns <=>
           /\ PresentValues(h) # {}
           /\ \A v \in PresentValues(h) : IsFinite(ToNumber(v))
      /\ h \notin NumericColumns => h \in CategoricalColumns

(***************************************************************************)
(* The MathEngine functions called on their own (SpecSeries): a series of  *)
(* readings is built, then detectAnomalies is called on it.                *)
(***************************************************************************)
MaxReadings == 6     \* longest series handed to detectAnomalies
Readings == {1, 2, 3, 4, 5, 100}

PushReading ==
  /\ pc = "input"
  /\ Len(values) < MaxReadings
  /\ \E v \in Readings : values' = Append(values, v)
  /\ UNCHANGED <<appVars, pc, trendOut, insightsOut, json, blocks, pivotArgs, pivotOut, analyticsData, ys, statOut>>

DetectAnomalies ==
  /\ pc = "input"
  /\ statOut' = [called |-> TRUE, out |-> detectAnomalies(values)]
  /\ pc' = "detectAnomalies"
  /\ UNCHANGED <<appVars, values, trendOut, insightsOut, json, blocks, pivotArgs, pivotOut, analyticsData, ys>>

NextSeries == PushReading \/ DetectAnomalies

SpecSeries == Init /\ [][NextSeries]_vars

\* the value at 0-based position k of the series in ascending order
RankValue(s, k) ==
  CHOOSE v \in Range(s) :
    /\ Cardinality({i \in DOMAIN s : s[i] < v}) <= k
    /\ k < Cardinality({i \in DOMAIN s : s[i] <= v})

\* v lies strictly outside [q1 - 1.5 (q3 - q1), q3 + 1.5 (q3 - q1)]
OutsideFences(v, q1, q3) ==
  \/ 2 * v < 2 * q1 - 3 * (q3 - q1)
  \/ 2 * v > 2 * q3 + 3 * (q3 - q1)

\* C11: detectAnomalies returns the empty list for fewer than 4 values;
\* otherwise it returns exactly the values, in series order, that are
\* strictly below Q1 - 1.5 IQR or strictly above Q3 + 1.5 IQR, where Q1 is
\* the value at index floor(n/4) and Q3 the value at index floor(3n/4) of
\* the ascending series; [1,2,3,4,5,100] gives [100].
C11_AnomaliesOutsideFences ==
  pc = "detectAnomalies" =>
    LET n == Len(values)
        InOut(v) == OutsideFences(v, RankValue(values, n \div 4),
                                  RankValue(values, (3 * n) \div 4))
    IN /\ n < 4 => statOut.out = <<>>
       /\ n >= 4 => statOut.out = SelectSeq(values, InOut)
       /\ values = <<1, 2, 3, 4, 5, 100>> => statOut.out = <<100>>

\* C11 witness: the anomalies of [1,2,3,4,5,100] were computed and are [100].
C11_Witness ==
  /\ pc = "detectAnomalies"
  /\ values = <<1, 2, 3, 4, 5, 100>>
  /\ statOut.out = <<100>>

(***************************************************************************)
(* calculateCorrelation called on two series (SpecCorrelation).  The       *)
(* series hold integers, which are numbers without rounding; the sums      *)
(* and products formed from them are rounded.                              *)
(***************************************************************************)
MaxSeries == 3       \* longest series handed to calculateCorrelation
StatValues == {1, 10^8, 10^8 + 1}

PushX ==
  /\ pc = "input"
  /\ Len(values) < MaxSeries
  /\ \E v \in StatValues : values' = Append(values, v)
  /\ UNCHANGED <<appVars, pc, trendOut, insightsOut, json, blocks, pivotArgs, pivotOut, analyticsData, ys, statOut>>

PushY ==
  /\ pc = "input"
  /\ Len(ys) < MaxSeries
  /\ \E v \in StatValues : ys' = Append(ys, v)
  /\ UNCHANGED <<appVars, pc, values, trendOut, insightsOut, json, blocks, pivotArgs, pivotOut, analyticsData, statOut>>

CalculateCorrelation ==
  /\ pc = "input"
  /\ statOut' = [called |-> TRUE,
                 out |-> calculateCorrelation(Doubles(values), Doubles(ys))]
  /\ pc' = "calculateCorrelation"
  /\ UNCHANGED <<appVars, values, trendOut, insightsOut, json, blocks, pivotArgs, pivotOut, analyticsData, ys>>

NextCorrelation == PushX \/ PushY \/ CalculateCorrelation

SpecCorrelation == Init /\ [][NextCorrelation]_vars

\* every value of the series is the same (zero variance)
IsConstant(s) == \A i, j \in DOMAIN s : s[i] = s[j]

\* C12: calculateCorrelation returns exactly 0, and never NaN or undefined,
\* whenever the two series have different lengths, either series is empty,
\* or either series is constant.
C12_DegenerateCorrelationIsZero ==
  (/\ pc = "calculateCorrelation"
   /\ \/ Len(values) # Len(ys)
      \/ values = <<>> \/ ys = <<>>
      \/ IsConstant(values) \/ IsConstant(ys)) =>
    statOut.out = Zero64

\* the correlation of a series with itself is 1
SelfCorrelationIsOne ==
  (values = ys /\ ~IsConstant(values)) => statOut.out = FromInt64(1)

\* the arguments taken in the other order give the same number
CorrelationSymmetric ==
  statOut.out = calculateCorrelation(Doubles(ys), Doubles(values))

\* C13: calculateCorrelation(x, x) equals 1 for every non-constant series x,
\* and calculateCorrelation(x, y) equals calculateCorrelation(y, x) for
\* every pair of series x and y.
C13_SelfCorrelationAndSymmetry ==
  pc = "calculateCorrelation" => (SelfCorrelationIsOne /\ CorrelationSymmetric)

(***************************************************************************)
(* calculateMedian called on a series of samples (SpecMedian).             *)
(***************************************************************************)
MaxSamples == 4      \* longest series handed to calculateMedian

PushSample ==
  /\ pc = "input"
  /\ Len(values) < MaxSamples
  /\ \E v \in Readings : values' = Append(values, v)
  /\ UNCHANGED <<appVars, pc, trendOut, insightsOut, json, blocks, pivotArgs, pivotOut, analyticsData, ys, statOut>>

\* the readings as exact numbers
Exact(s) == ArrayOf([i \in DOMAIN s |-> RInt(s[i])])

CalculateMedian ==
  /\ pc = "input"
  /\ statOut' = [called |-> TRUE, out |-> calculateMedian(Exact(values))]
  /\ pc' = "calculateMedian"
  /\ UNCHANGED <<appVars, values, trendOut, insightsOut, json, blocks, pivotArgs, pivotOut, analyticsData, ys>>

NextMedian == PushSample \/ CalculateMedian

SpecMedian == Init /\ [][NextMedian]_vars

\* C14: calculateMedian returns 0 for the empty series, x for the
\* one-element series [x], the middle element of the ascending series when
\* the length is odd, and the average of the two middle elements of the
\* ascending series when the length is even, for every input order.
C14_MedianOfAscending ==
  pc = "calculateMedian" =>
    LET n == Len(values)
    IN /\ n = 0 => statOut.out = RInt(0)
       /\ n = 1 => statOut.out = RInt(values[1])
       /\ (n > 0 /\ n % 2 = 1) => statOut.out = RInt(RankValue(values, n \div 2))
       /\ (n > 0 /\ n % 2 = 0) =>
            statOut.out = Rat(RankValue(values, (n \div 2) - 1)
                              + RankValue(values, n \div 2), 2)

\* C14 witness: an even-length series that is not in ascending order, whose
\* two middle elements differ, has its median computed.
C14_Witness ==
  /\ pc = "calculateMedian"
  /\ values = <<100, 1, 4, 2>>
  /\ statOut.out = RInt(3)

(***************************************************************************)
(* calculateStdDev called on a series and a supplied mean (SpecDeviation). *)
(***************************************************************************)
CalculateStdDev ==
  /\ pc = "input"
  /\ \E avg \in StatValues :
       statOut' = [called |-> TRUE, avg |-> avg,
                   out |-> calculateStdDev64(Doubles(values), FromInt64(avg))]
  /\ pc' = "calculateStdDev"
  /\ UNCHANGED <<appVars, values, trendOut, insightsOut, json, blocks, pivotArgs, pivotOut, analyticsData, ys>>

NextDeviation == PushX \/ CalculateStdDev

SpecDeviation == Init /\ [][NextDeviation]_vars

RECURSIVE SquaredDeviations(_, _)
\* the exact sum of the squared deviations of the integers s from avg
SquaredDeviations(s, avg) ==
  IF s = <<>> THEN <<>>
  ELSE BAdd(BMul(BFromInt(Abs(s[1] - avg)), BFromInt(Abs(s[1] - avg))),
            SquaredDeviations(Tail(s), avg))

\* |a - b|
BDiff(a, b) == IF BLess(a, b) THEN BSub(b, a) ELSE BSub(a, b)

\* a and b differ by at most one part in 2^48 of b
Near(a, b) == ~BLess(b, BShl(BDiff(a, b), 48))

\* n * r^2 is the sum of squares sumSq, up to the rounding of the steps
IsRootOfMean(r, n, sumSq) ==
  IF sumSq = <<>> THEN r = Zero64
  ELSE /\ r.s = 1 /\ r.m # <<>>
       /\ IF r.e < 0
            THEN Near(BMulSmall(BMul(r.m, r.m), n), BShl(sumSq, -2 * r.e))
            ELSE Near(BShl(BMulSmall(BMul(r.m, r.m), n), 2 * r.e), sumSq)

\* the series with its positions rearranged by p
Permuted(s, p) == [i \in DOMAIN s |-> s[p[i]]]

\* every arrangement of the series gives the number that was returned
SameForEveryOrder ==
  \A p \in Permutations(DOMAIN values) :
    calculateStdDev64(Doubles(Permuted(values, p)), FromInt64(statOut.avg)) = statOut.out

\* C15: calculateStdDev returns 0 for the empty series whatever mean is
\* supplied, and for a non-empty series the square root of the mean of the
\* squared deviations from the supplied mean (divisor n), a result that is
\* the same for every permutation of the input values.
C15_StdDevOrderInvariant ==
  pc = "calculateStdDev" =>
    /\ values = <<>> => statOut.out = Zero64
    /\ values # <<>> =>
         /\ IsRootOfMean(statOut.out, Len(values), SquaredDeviations(values, statOut.avg))
         /\ SameForEveryOrder

(***************************************************************************)
(* Claims about the KPIs built by processData (SpecProfile).               *)
(***************************************************************************)
\* the number a field stands for: the finite number it converts to, and 0
\* for a field that is missing or converts to none
NumberOrZero(v) == IF IsFinite(ToNumber(v)) THEN ToNumber(v) ELSE RInt(0)

\* C16: for every Numeric column the KPI's rawData holds exactly one entry
\* per dataset row, in row order, where entry i is the numeric value of row
\* i's field and is 0 when that field is missing or non-numeric; so all
\* Numeric KPIs of one dataset have rawData of the same length, the row count.
C16_RawDataPerRow ==
  pc = "processData" =>
    \A k \in DOMAIN analyticsData.numeric :
      /\ Len(analyticsData.numeric[k].rawData) = Len(json)
      /\ \A i \in DOMAIN json :
           analyticsData.numeric[k].rawData[i] =
             NumberOrZero(Field(json[i], analyticsData.numeric[k].column))

(***************************************************************************)
(* The Categorical KPI of one column (SpecCategories): the column's values *)
(* as catCols holds them (strings) are built, then the KPI is computed.    *)
(***************************************************************************)
MaxCategories == 6   \* most rows of the column
str_a == <<97>>
str_b == <<98>>
str_c == <<99>>
str_d == <<100>>
str_2 == <<50>>
CategoryValues == {str_a, str_b, str_c, str_d, str_2, str_10}

PushCategory ==
  /\ pc = "input"
  /\ Len(values) < MaxCategories
  /\ \E v \in CategoryValues : values' = Append(values, v)
  /\ UNCHANGED <<appVars, pc, trendOut, insightsOut, json, blocks, pivotArgs, pivotOut, analyticsData, ys, statOut>>

CountCategories ==
  /\ pc = "input"
  /\ statOut' = [called |-> TRUE, out |-> CategoricalKPI("c", values)]
  /\ pc' = "categoricalKPI"
  /\ UNCHANGED <<appVars, values, trendOut, insightsOut, json, blocks, pivotArgs, pivotOut, analyticsData, ys>>

NextCategories == PushCategory \/ CountCategories

SpecCategories == Init /\ [][NextCategories]_vars

\* the number of rows of the column that hold v
RowsHolding(v) == Cardinality({i \in DOMAIN values : values[i] = v})

\* C17: for every Categorical column topValues lists at most 5 (value,
\* count) pairs in non-increasing order of count, no value outside topValues
\* has a count greater than a listed one, each listed count is the number
\* of rows holding that value, and uniqueCount is the number of distinct
\* values of the column (not the number listed); when there are at most 5
\* distinct values all of them are listed.
C17_TopValues ==
  pc = "categoricalKPI" =>
    LET top == statOut.out.topValues
        listed == {top[i].name : i \in DOMAIN top}
    IN /\ Len(top) <= 5
       /\ \A i, j \in DOMAIN top : i < j => top[i].count >= top[j].count
       /\ \A v \in Range(values) \ listed :
            \A i \in DOMAIN top : RowsHolding(v) <= top[i].count
       /\ \A i \in DOMAIN top : top[i].count = RowsHolding(top[i].name)
       /\ \A v \in Range(values) : v \in listed \/ Len(top) = 5
       /\ statOut.out.uniqueCount = Cardinality(Range(values))

\* C17 witness: a column of six distinct values has five of them listed and
\* a uniqueCount of six.
C17_Witness ==
  /\ pc = "categoricalKPI"
  /\ Len(statOut.out.topValues) = 5
  /\ statOut.out.uniqueCount = 6
  /\ Cardinality(Range(values)) = 6

\* the value a row is to be counted under: "N/A" for a missing field, the
\* field's own string form for a present one
CountedUnder(v) == IF Absent(v) THEN str_NA ELSE JSToString(v)

\* the rows to be counted under the name s in column h
RowsUnder(h, s) == {i \in DOMAIN json : CountedUnder(Field(json[i], h)) = s}

\* C18: in Categorical KPI frequency counting a row is counted under the
\* literal "N/A" when its field is missing, and every row whose field is
\* present is counted under that value's own string form; so the count
\* reported for "N/A" is the number of rows whose field is missing (plus
\* the rows that literally hold "N/A").
C18_MissingCountedAsNA ==
  pc = "processData" =>
    \A k \in DOMAIN analyticsData.categorical :
      LET kpi == analyticsData.categorical[k]
      IN /\ \A e \in Range(kpi.topValues) :
              e.count = Cardinality(RowsUnder(kpi.column, e.name))
         /\ kpi.uniqueCount <= 5 =>
              \A i \in DOMAIN json :
                \E e \in Range(kpi.topValues) :
                  e.name = CountedUnder(Field(json[i], kpi.column))

\* the row at which the column first holds v
FirstRow(v) == CHOOSE i \in DOMAIN values : values[i] = v /\ \A j \in 1..(i - 1) : values[j] # v

\* C19: when two distinct values of a Categorical column have equal counts
\* they appear in the descending-count ordering (and hence in topValues) in
\* the order in which they were first encountered in the dataset, for every
\* kind of value including values whose string form is an integer.
C19_TiesInFirstSeenOrder ==
  pc = "categoricalKPI" =>
    \A i, j \in DOMAIN statOut.out.topValues :
      (i < j /\ statOut.out.topValues[i].count = statOut.out.topValues[j].count) =>
        FirstRow(statOut.out.topValues[i].name) < FirstRow(statOut.out.topValues[j].name)

(***************************************************************************)
(* isLikelyDate called on the values of one column (SpecDates).  The       *)
(* column is built from runs of equal cells.                               *)
(***************************************************************************)
MaxRuns == 3         \* most runs of equal cells in the column
RunLengths == {5, 10, 40}
SampleCells == {Num(DateSerial), Num(SerialLow), Num(SerialHigh), Str(str_x), Undef}

AppendRun ==
  /\ pc = "input"
  /\ blocks < MaxRuns
  /\ \E cell \in SampleCells, k \in RunLengths :
       values' = values \o [i \in 1..k |-> cell]
  /\ blocks' = blocks + 1
  /\ UNCHANGED <<appVars, pc, trendOut, insightsOut, json, pivotArgs, pivotOut, analyticsData, ys, statOut>>

CallIsLikelyDate ==
  /\ pc = "input"
  /\ statOut' = [called |-> TRUE, out |-> isLikelyDate(values)]
  /\ pc' = "isLikelyDate"
  /\ UNCHANGED <<appVars, values, trendOut, insightsOut, json, blocks, pivotArgs, pivotOut, analyticsData, ys>>

NextDates == AppendRun \/ CallIsLikelyDate

SpecDates == Init /\ [][NextDates]_vars

\* the first min(50, n) values of the column
Sampled == SubSeq(values, 1, IF Len(values) < 50 THEN Len(values) ELSE 50)

\* a number strictly between 32000 and 75000
InSerialRange(v) == v.t = "number" /\ 32000 < v.n /\ v.n < 75000

\* how many of the sampled values are in range
InRangeCount == Len(SelectSeq(Sampled, InSerialRange))

\* C20: isLikelyDate flags a column exactly when, among the first
\* min(50, rowCount) sampled values, the fraction that are numbers strictly
\* between 32000 and 75000 is strictly greater than 0.8: 45 of 50 in range
\* is flagged, 10 of 50 is not, exactly 40 of 50 is not, and an empty sample
\* is not.
C20_DateSerialFraction ==
  pc = "isLikelyDate" =>
    /\ statOut.out = (Sampled # <<>> /\ 5 * InRangeCount > 4 * Len(Sampled))
    /\ (Len(Sampled) = 50 /\ InRangeCount = 45) => statOut.out
    /\ (Len(Sampled) = 50 /\ InRangeCount = 10) => ~statOut.out
    /\ (Len(Sampled) = 50 /\ InRangeCount = 40) => ~statOut.out
    /\ values = <<>> => ~statOut.out

\* C20 witness: a column longer than the sample, with 45 of its first 50
\* values in range, was flagged.
C20_Witness ==
  /\ pc = "isLikelyDate"
  /\ Len(values) > 50
  /\ InRangeCount = 45
  /\ statOut.out

(***************************************************************************)
(* Claims about the date conversion of processData (SpecProfile).          *)
(***************************************************************************)
\* the Categorical KPI of column h in the state set by processData
CategoricalKPIOf(a, h) ==
  a.categorical[CHOOSE k \in DOMAIN a.categorical : a.categorical[k].column = h]

\* the cell a flagged column holds after the conversion
Converted(v) == IF v.t = "number" THEN Str(serialToDateStr(v.n)) ELSE v

\* a call of processData on the dataset json
ProcessDataStep == pc = "input" /\ pc' = "processData"

\* C21: for every column that processData flags as Date-Serial the
\* conversion runs before classification: the column is never classified
\* Numeric, no Numeric KPI is produced for it, and a Categorical KPI is
\* produced for it (over the converted values).
C21_DateColumnsAreCategorical ==
  [][ProcessDataStep =>
       \A h \in DateColumns(json, Keys(json[1])) :
         /\ \A k \in DOMAIN analyticsData'.numeric : analyticsData'.numeric[k].column # h
         /\ \E k \in DOMAIN analyticsData'.categorical : analyticsData'.categorical[k].column = h
         /\ \A i \in DOMAIN json :
              Field(analyticsData'.raw[i], h) = Converted(Field(json[i], h))
         /\ \A e \in Range(CategoricalKPIOf(analyticsData', h).topValues) :
              \E i \in DOMAIN json :
                e.name = CategoricalEntry(Converted(Field(json[i], h)))]_vars

\* C21 witness: a column of date serials was converted to date strings and
\* has a Categorical KPI.
C21_Witness ==
  /\ pc = "processData"
  /\ Len(json) > 1
  /\ Field(json[1], "q") = Str(serialToDateStr(DateSerial))
  /\ "q" \in CategoricalColumns
  /\ "q" \notin NumericColumns

(***************************************************************************)
(* processData called twice on the same dataset (SpecRerun): the second    *)
(* call receives the array the first call was given, rows as it left them. *)
(***************************************************************************)
ProcessDataAgain ==
  /\ pc = "processData"
  /\ analyticsData' = processData(json)
  /\ json' = analyticsData'.raw
  /\ pc' = "processDataAgain"
  /\ UNCHANGED <<appVars, values, trendOut, insightsOut, blocks, pivotArgs, pivotOut, ys, statOut>>

NextRerun == AppendRows \/ ProcessData \/ ProcessDataAgain

SpecRerun == Init /\ [][NextRerun]_vars

\* C22: running processData twice in succession on the same unchanged
\* dataset produces numeric and categorical KPI structures that are deeply
\* equal, for every dataset including ones with a Date-Serial column.
C22_RerunGivesEqualKPIs ==
  [][(pc = "processData" /\ pc' = "processDataAgain") =>
       /\ analyticsData'.numeric = analyticsData.numeric
       /\ analyticsData'.categorical = analyticsData.categorical]_vars

\* C22 witness: a dataset with a converted date column and a Numeric column
\* has been processed twice.
C22_Witness ==
  /\ pc = "processDataAgain"
  /\ Field(json[1], "q") = Str(serialToDateStr(DateSerial))
  /\ "p" \in NumericColumns
  /\ "q" \in CategoricalColumns

(***************************************************************************)
(* Frame of processData (SpecProfile): json is the array the caller handed *)
(* over, read again after the call.                                        *)
(***************************************************************************)
\* C23: profiling does not modify its input: after processData returns,
\* every row of the dataset it was given holds exactly the same field
\* values as before the call.
C23_ProcessDataLeavesRows ==
  [][ProcessDataStep =>
       /\ Len(json') = Len(json)
       /\ \A i \in DOMAIN json : json'[i] = json[i]]_vars

(***************************************************************************)
(* Claims about the returned keys of performPivot (SpecPivot)              *)
(***************************************************************************)
\* the grid entries read as the table is rendered: one cell per returned
\* row key and returned column key
GridCell(out, i, j) == out.grid[JSToString(out.rowKeys[i])][JSToString(out.colKeys[j])]

GridTotal(out) ==
  SumSeq([i \in DOMAIN out.rowKeys |->
            SumSeq([j \in DOMAIN out.colKeys |-> GridCell(out, i, j).num])])

DistinctStrings(keys) ==
  \A i, j \in DOMAIN keys : JSToString(keys[i]) = JSToString(keys[j]) => i = j

\* C26: performPivot with func = Count returns a grid whose entries, summed
\* over all returned rowKeys x colKeys, equal the number of rows that were
\* not skipped; equivalently no two returned row keys (or column keys) have
\* the same string form, also when a dimension column mixes a number and the
\* string of that number.
C26_CountGridTotal ==
  (pc = "performPivot" /\ pivotArgs.func = "Count") =>
    /\ GridTotal(pivotOut) = Cardinality(Kept(pivotArgs))
    /\ DistinctStrings(pivotOut.rowKeys)
    /\ DistinctStrings(pivotOut.colKeys)

(***************************************************************************)
(* CorrelationView's matrix over the Numeric KPIs (SpecMatrix).  The KPIs  *)
(* of one dataset hold one rawData entry per row, so the columns x and y   *)
(* built here have the same length.                                        *)
(***************************************************************************)
\* headers.map((rowName, i) => headers.map((colName, j) => ...))
CorrelationGrid(numericKPIs) ==
  ArrayOf([i \in DOMAIN numericKPIs |->
    ArrayOf([j \in DOMAIN numericKPIs |->
      IF i = j THEN FromInt64(1)
      ELSE calculateCorrelation(numericKPIs[i].rawData, numericKPIs[j].rawData)])])

\* the value of useMemo in CorrelationView
CorrelationMatrix(numericKPIs) ==
  [headers |-> ArrayOf([k \in DOMAIN numericKPIs |-> numericKPIs[k].column]),
   grid |-> CorrelationGrid(numericKPIs)]

KPIColumn(name, column) == [column |-> name, rawData |-> Doubles(column)]

RenderCorrelationView ==
  /\ pc = "input"
  /\ Len(values) = Len(ys)
  /\ Len(values) > 0
  /\ statOut' = [called |-> TRUE,
                 matrix |-> CorrelationMatrix(<<KPIColumn("x", values), KPIColumn("y", ys)>>)]
  /\ pc' = "CorrelationView"
  /\ UNCHANGED <<appVars, values, trendOut, insightsOut, json, blocks, pivotArgs, pivotOut, analyticsData, ys>>

NextMatrix == PushX \/ PushY \/ RenderCorrelationView

SpecMatrix == Init /\ [][NextMatrix]_vars

\* -1 <= x <= 1 for a number x (false of NaN and of the infinities)
InUnitRange(x) ==
  \/ x = Zero64
  \/ /\ x.m # <<>>
     /\ \/ x.e <= -Precision
        \/ x = FromInt64(1)
        \/ x = Neg64(FromInt64(1))

\* C27: the correlation matrix built for n Numeric KPIs is an n x n grid
\* whose diagonal entries are all 1, whose entry (i, j) equals entry (j, i),
\* and whose every entry lies in the range [-1, 1].
C27_CorrelationMatrixShape ==
  pc = "CorrelationView" =>
    LET grid == statOut.matrix.grid
        n == Len(statOut.matrix.headers)
    IN /\ n = 2
       /\ Len(grid) = n
       /\ \A i \in 1..n :
            /\ Len(grid[i]) = n
            /\ grid[i][i] = FromInt64(1)
            /\ \A j \in 1..n :
                 /\ grid[i][j] = grid[j][i]
                 /\ InUnitRange(grid[i][j])

(***************************************************************************)
(* The Numeric KPI of one column (SpecKPI).  The column's numbers are      *)
(* multiples of 1/8, which a spreadsheet cell holds without rounding; the  *)
(* series values holds their numerators.                                   *)
(***************************************************************************)
MaxCells == 4        \* most rows of the column
EighthValues == {1, 2, 9}

PushCell ==
  /\ pc = "input"
  /\ Len(values) < MaxCells
  /\ \E v \in EighthValues : values' = Append(values, v)
  /\ UNCHANGED <<appVars, pc, trendOut, insightsOut, json, blocks, pivotArgs, pivotOut, analyticsData, ys, statOut>>

\* the extracted column: Number(row[header]) || 0 of the number cells v / 8
Eighths(s) == ArrayOf([i \in DOMAIN s |-> Rat(s[i], 8)])

\* the map callback of numericKPIs for the column
ComputeNumericKPI ==
  /\ pc = "input"
  /\ Len(values) > 0
  /\ statOut' = [called |-> TRUE, kpi |-> NumericKPI("p", Eighths(values))]
  /\ pc' = "numericKPI"
  /\ UNCHANGED <<appVars, values, trendOut, insightsOut, json, blocks, pivotArgs, pivotOut, analyticsData, ys>>

NextKPI == PushCell \/ ComputeNumericKPI

SpecKPI == Init /\ [][NextKPI]_vars

\* x has at most 2 decimal places
TwoDecimals(x) == IsFinite(x) /\ 100 % x.den = 0

\* a <= b
RLeq(a, b) == ~RLt(b, a)

\* shown is exact rounded to 2 decimal places: a 2-decimal number at most
\* half a hundredth away
RoundingOf(shown, exact) ==
  /\ TwoDecimals(shown)
  /\ RLeq(RSub(exact, Rat(1, 200)), shown)
  /\ RLeq(shown, RAdd(exact, Rat(1, 200)))

\* the exact mean of the column
MeanOf(s) == Rat(SumSeq(s), 8 * Len(s))

\* the exact median of the column
MedianOf(s) ==
  LET n == Len(s)
  IN IF n % 2 = 1 THEN Rat(RankValue(s, n \div 2), 8)
     ELSE Rat(RankValue(s, (n \div 2) - 1) + RankValue(s, n \div 2), 16)

RECURSIVE SumSquares(_, _)
\* the sum of the squared deviations of s from mean
SumSquares(s, mean) ==
  IF s = <<>> THEN RInt(0)
  ELSE LET d == RSub(Rat(s[1], 8), mean)
       IN RAdd(RMul(d, d), SumSquares(Tail(s), mean))

\* shown is the square root of radicand rounded to 2 decimal places:
\* with shown = k / 100, (2k - 1)^2 <= 40000 * radicand <= (2k + 1)^2
RoundingOfRoot(shown, radicand) ==
  LET k == (shown.num * 100) \div shown.den
      f == ScaledFloor(radicand.num, radicand.den, 200)
  IN /\ TwoDecimals(shown)
     /\ k >= 0
     /\ k = 0 \/ (2 * k - 1) * (2 * k - 1) <= f
     /\ f <= (2 * k + 1) * (2 * k + 1)

\* C25: in every Numeric KPI each of min, max, avg, median and stdDev is
\* rounded to 2 decimal places, and the rounding is applied only to the
\* final results: median is computed from the unrounded values and stdDev
\* from the unrounded values and the unrounded average.
C25_KPIsRoundedAtTheEnd ==
  pc = "numericKPI" =>
    LET kpi == statOut.kpi
        mean == MeanOf(values)
    IN /\ RoundingOf(kpi.min, Rat(RankValue(values, 0), 8))
       /\ RoundingOf(kpi.max, Rat(RankValue(values, Len(values) - 1), 8))
       /\ RoundingOf(kpi.avg, mean)
       /\ RoundingOf(kpi.median, MedianOf(values))
       /\ RoundingOfRoot(kpi.stdDev, XDivInt(SumSquares(values, mean), Len(values)))

(***************************************************************************)
(* Row objects of the cleaning step.  The transforms add and remove        *)
(* properties, so a row is kept with its properties in insertion order: a  *)
(* sequence of entries [k |-> name, v |-> cell].                           *)
(***************************************************************************)
HasKey(row, k) == \E i \in DOMAIN row : row[i].k = k

\* row[k]
Get(row, k) ==
  IF HasKey(row, k) THEN row[CHOOSE i \in DOMAIN row : row[i].k = k].v ELSE Undef

\* { ...row, [k]: v }: an own property keeps its place, a new one goes last
Put(row, k, v) ==
  IF HasKey(row, k)
    THEN [i \in DOMAIN row |-> IF row[i].k = k THEN [k |-> k, v |-> v] ELSE row[i]]
    ELSE Append(row, [k |-> k, v |-> v])

\* const { [k]: _, ...rest } = row
Without(row, k) == SelectSeq(row, LAMBDA e : e.k # k)

\* Object.keys(row) of a row in insertion order
ObjectKeys(row) == [i \in DOMAIN row |-> row[i].k]

\* the row as a mapping from column name to cell
AsRow(row) == [k \in {row[i].k : i \in DOMAIN row} |-> Get(row, k)]

AsRows(rows) == ArrayOf([i \in DOMAIN rows |-> AsRow(rows[i])])

\* the rows of a mapping-valued dataset under the property order of rows
WithRows(rows, mapped) ==
  [i \in DOMAIN rows |->
     [j \in DOMAIN rows[i] |-> [k |-> rows[i][j].k, v |-> mapped[i][rows[i][j].k]]]]

(***************************************************************************)
(* DataTransformer.                                                        *)
(***************************************************************************)
\* JSON.stringify of a cell that is a string without escapes, an integer
\* or null
JSONValue(v) ==
  CASE v.t = "string" -> <<34>> \o v.s \o <<34>>
    [] v.t = "number" -> NumToStr(v.n)
    [] OTHER -> str_null

\* JSON.stringify(row), as its members in order: a property holding
\* undefined is left out
JSONStringify(row) ==
  LET kept == SelectSeq(row, LAMBDA e : e.v.t # "undefined")
  IN [i \in DOMAIN kept |-> <<kept[i].k, JSONValue(kept[i].v)>>]

\* the filter keeps a row when no earlier row has the same serialisation
removeDuplicates(rows) ==
  LET keep == {i \in DOMAIN rows :
                 \A j \in 1..(i - 1) : JSONStringify(rows[j]) # JSONStringify(rows[i])}
  IN ValuesAt(rows, keep)

str_Unknown == <<85, 110, 107, 110, 111, 119, 110>>

\* a number as a cell (the cells of the model hold integers)
NumberCell(x) == IF x.den = 1 THEN Num(x.num) ELSE [t |-> "number", n |-> x, s |-> <<>>]

\* cleanData.map(r => Number(r[column])).filter(v => !isNaN(v))
NumericValuesOf(rows, column) ==
  SelectSeq([i \in DOMAIN rows |-> ToNumber(Get(rows[i], column))], LAMBDA v : ~IsNaN(v))

\* numericValues.length ? sum / numericValues.length : 0
MeanOrZero(numericValues) ==
  IF Len(numericValues) > 0 THEN XDivInt(XSum(numericValues), Len(numericValues)) ELSE RInt(0)

\* newVal of a missing cell val
FillValue(val, strategy, mean) ==
  CASE strategy = "fill-zero" -> Num(0)
    [] strategy = "fill-mean" -> NumberCell(XRound2(mean))
    [] strategy = "fill-unknown" -> Str(str_Unknown)
    [] OTHER -> val

handleMissingValues(rows, column, strategy) ==
  IF strategy = "drop-row"
    THEN SelectSeq(rows, LAMBDA row : ~IsMissing(Get(row, column)))
    ELSE [i \in DOMAIN rows |->
            IF IsMissing(Get(rows[i], column))
              THEN Put(rows[i], column,
                       FillValue(Get(rows[i], column), strategy,
                                 MeanOrZero(NumericValuesOf(rows, column))))
              ELSE rows[i]]

\* s.startsWith(d)
StartsWith(s, d) == Len(d) <= Len(s) /\ SubSeq(s, 1, Len(d)) = d

RECURSIVE SplitFrom(_, _, _)
\* s.split(d) for a non-empty d, with part the text read since the last d
SplitFrom(s, d, part) ==
  IF s = <<>> THEN <<part>>
  ELSE IF StartsWith(s, d) THEN <<part>> \o SplitFrom(SubSeq(s, Len(d) + 1, Len(s)), d, <<>>)
  ELSE SplitFrom(Tail(s), d, Append(part, s[1]))

Split(s, d) == SplitFrom(s, d, <<>>)

\* `${column}_${index + 1}`
PartName(column, index) == column \o "_" \o ToString(index)

RECURSIVE PutParts(_, _, _, _)
\* parts.forEach((part, index) => newRow[...] = part.trim()) from part i on
PutParts(row, column, parts, i) ==
  IF i > Len(parts) THEN row
  ELSE PutParts(Put(row, PartName(column, i), Str(TrimRight(TrimLeft(parts[i])))),
                column, parts, i + 1)

\* String(row[column] || "")
TextOf(v) == IF Truthy(v) THEN JSToString(v) ELSE <<>>

\* delimiter is the answer of prompt(): null when cancelled, else a string
textToColumns(rows, column, delimiter) ==
  IF ~Truthy(delimiter) THEN rows
  ELSE [i \in DOMAIN rows |->
          PutParts(rows[i], column, Split(TextOf(Get(rows[i], column)), delimiter.s), 1)]

\* toUpperCase and toLowerCase on the letters a-z and A-Z
UpperCase(s) == [i \in DOMAIN s |-> IF s[i] \in 97..122 THEN s[i] - 32 ELSE s[i]]
LowerCase(s) == [i \in DOMAIN s |-> IF s[i] \in 65..90 THEN s[i] + 32 ELSE s[i]]

\* val.charAt(0).toUpperCase() + val.slice(1).toLowerCase()
Capitalize(s) ==
  IF s = <<>> THEN s ELSE UpperCase(<<s[1]>>) \o LowerCase(Tail(s))

Standardized(s, type) ==
  CASE type = "uppercase" -> UpperCase(s)
    [] type = "lowercase" -> LowerCase(s)
    [] type = "trim" -> TrimRight(TrimLeft(s))
    [] type = "capitalize" -> Capitalize(s)
    [] OTHER -> s

standardizeFormat(rows, column, type) ==
  [i \in DOMAIN rows |->
     IF Get(rows[i], column).t # "string" THEN rows[i]
     ELSE Put(rows[i], column, Str(Standardized(Get(rows[i], column).s, type)))]

\* newData.map(row => { const { [selectedCol]: _, ...rest } = row; return rest; })
DeleteColumn(rows, column) == [i \in DOMAIN rows |-> Without(rows[i], column)]

(***************************************************************************)
(* DataCleaningView: pushHistory, applyTransform, handleUndo.              *)
(***************************************************************************)
HistoryLimit == 5    \* prev.slice(-4) and the new snapshot

\* prev.slice(-(HistoryLimit - 1))
LastSnapshots(prev) ==
  IF Len(prev) < HistoryLimit THEN prev
  ELSE SubSeq(prev, Len(prev) - HistoryLimit + 2, Len(prev))

\* a history that keeps every snapshot
pushHistory_Unbounded(prev, rows) == Append(prev, rows)

\* setHistory(prev => [...prev.slice(-4), [...data]])
pushHistory(prev, rows) == Append(LastSnapshots(prev), rows)

\* the cases of the switch that test selectedCol
ColumnScoped == {"missing-vals", "text-to-columns", "standardize", "delete-col"}

\* the call returns at "if (!selectedCol) return alert(...)"
ReturnsEarly(call, column) == call.action \in ColumnScoped /\ column = "null"

\* the call changes no row by its own rules: it returned early, or the
\* delimiter prompt was cancelled or left empty
NotApplied(call, column) ==
  \/ ReturnsEarly(call, column)
  \/ call.action = "text-to-columns" /\ ~Truthy(call.delimiter)

\* newData at the end of the switch
Transformed(rows, column, call) ==
  CASE call.action = "remove-duplicates" -> removeDuplicates(rows)
    [] call.action = "missing-vals" -> handleMissingValues(rows, column, call.strategy)
    [] call.action = "text-to-columns" ->
         IF Truthy(call.delimiter) THEN textToColumns(rows, column, call.delimiter) ELSE rows
    [] call.action = "standardize" -> standardizeFormat(rows, column, call.type)
    [] call.action = "delete-col" -> DeleteColumn(rows, column)
    [] OTHER -> rows

\* the state of the view after applyTransform(call.action, params)
applyTransform(rows, column, snapshots, call) ==
  IF ReturnsEarly(call, column)
    THEN [data |-> rows, selectedCol |-> column,
          history |-> pushHistory(snapshots, rows)]
    ELSE [data |-> Transformed(rows, column, call),
          selectedCol |-> IF call.action = "delete-col" THEN "null" ELSE column,
          history |-> pushHistory(snapshots, rows)]

\* the effect on [data]: setHeaders(Object.keys(data[0])) when data has rows
HeadersAfter(rows, previous) == IF Len(rows) > 0 THEN ObjectKeys(rows[1]) ELSE previous

(***************************************************************************)
(* The application (SpecApp): file selection, the asynchronous read, the   *)
(* cleaning view, Cancel and Analyze Data.                                 *)
(***************************************************************************)
MaxRequests == 6     \* most calls of applyTransform

Files == {"A", "B"}

Entry(k, v) == [k |-> k, v |-> v]

\* XLSX.utils.sheet_to_json of the first sheet of the file: A holds two
\* rows with an empty text cell, B one row with a text cell
Parsed(file) ==
  IF file = "A"
    THEN << <<Entry("p", Str(<<>>))>>, <<Entry("p", Str(<<>>))>> >>
    ELSE << <<Entry("p", Str(str_x))>> >>

Strategies == {"drop-row", "fill-zero", "fill-mean"}
Formats == {"trim", "uppercase", "capitalize"}
\* the prompt is cancelled, or confirmed with nothing typed
Delimiters == {Null, Str(<<>>)}

Call(action, strategy, type, delimiter) ==
  [action |-> action, strategy |-> strategy, type |-> type, delimiter |-> delimiter]

\* the onClick handlers of the toolbar and the answers to the prompt
Calls ==
  {Call("remove-duplicates", "", "", Null), Call("delete-col", "", "", Null)}
    \cup {Call("missing-vals", s, "", Null) : s \in Strategies}
    \cup {Call("standardize", "", t, Null) : t \in Formats}
    \cup {Call("text-to-columns", "", "", d) : d \in Delimiters}

engineVars == <<pc, values, trendOut, insightsOut, json, blocks, pivotArgs, pivotOut, ys, statOut>>

\* handleFileUpload: a FileReader is started on the chosen file.  The
\* upload inputs are rendered in the upload and dashboard states only.
HandleFileUpload ==
  /\ appState \in {"upload", "dashboard"}
  /\ \E file \in Files \ reads :
       /\ reads' = reads \cup {file}
       /\ selected' = file
  /\ UNCHANGED <<engineVars, analyticsData, appState, rawJSON, cleanData,
                 viewData, viewHeaders, selectedCol, history, request>>

\* reader.onload of one of the pending reads.  DataCleaningView takes its
\* rows from rawData when it mounts (useState(rawData)): a view that is
\* already shown keeps its state.
ReaderOnLoad ==
  \E file \in reads :
    /\ reads' = reads \ {file}
    /\ IF Len(Parsed(file)) > 0
         THEN /\ rawJSON' = Parsed(file)
              /\ appState' = "cleaning"
              /\ IF appState # "cleaning"
                   THEN /\ viewData' = Parsed(file)
                        /\ viewHeaders' = ObjectKeys(Parsed(file)[1])
                        /\ selectedCol' = "null"
                        /\ history' = <<>>
                   ELSE UNCHANGED <<viewData, viewHeaders, selectedCol, history>>
         ELSE UNCHANGED <<rawJSON, appState, viewData, viewHeaders, selectedCol, history>>
    /\ UNCHANGED <<engineVars, analyticsData, cleanData, selected, request>>

\* a click on a column header of the preview table
SelectColumn ==
  /\ appState = "cleaning"
  /\ \E h \in Range(viewHeaders) : selectedCol' = h
  /\ UNCHANGED <<engineVars, analyticsData, appState, rawJSON, cleanData, reads, selected,
                 viewData, viewHeaders, history, request>>

\* a toolbar click.  The Drop and Text to Columns buttons are disabled
\* while no column is selected; the entries of the two menus are not.
ApplyTransform ==
  /\ appState = "cleaning"
  /\ request.count < MaxRequests
  /\ \E call \in Calls :
       /\ call.action \in {"delete-col", "text-to-columns"} => selectedCol # "null"
       /\ LET view == applyTransform(viewData, selectedCol, history, call)
          IN /\ viewData' = view.data
             /\ selectedCol' = view.selectedCol
             /\ history' = view.history
             /\ viewHeaders' = HeadersAfter(view.data, viewHeaders)
       /\ request' = [count |-> request.count + 1,
                      applied |-> ~NotApplied(call, selectedCol)]
  /\ UNCHANGED <<engineVars, analyticsData, appState, rawJSON, cleanData, reads, selected>>

\* handleUndo (the button is disabled while the history is empty)
HandleUndo ==
  /\ appState = "cleaning"
  /\ history # <<>>
  /\ viewData' = history[Len(history)]
  /\ history' = SubSeq(history, 1, Len(history) - 1)
  /\ viewHeaders' = HeadersAfter(viewData', viewHeaders)
  /\ UNCHANGED <<engineVars, analyticsData, appState, rawJSON, cleanData, reads, selected,
                 selectedCol, request>>

\* the state of the view is dropped when it unmounts
Unmounted ==
  /\ viewData' = <<>>
  /\ viewHeaders' = <<>>
  /\ selectedCol' = "null"
  /\ history' = <<>>

\* onCancel
Cancel ==
  /\ appState = "cleaning"
  /\ appState' = "upload"
  /\ Unmounted
  /\ UNCHANGED <<engineVars, analyticsData, rawJSON, cleanData, reads, selected, request>>

\* processData(json) of App, on rows kept in insertion order
Profile(rows) == ConvertAndClassify(ObjectKeys(rows[1]), AsRows(rows))

\* handleCleaningComplete(data): processData returns at once on an empty
\* dataset, without setAnalyticsData; it rewrites the date cells of the
\* rows it is given, which are the rows of cleanData
HandleCleaningComplete ==
  /\ appState = "cleaning"
  /\ IF Len(viewData) = 0
       THEN /\ cleanData' = viewData
            /\ UNCHANGED analyticsData
       ELSE /\ analyticsData' = Profile(viewData)
            /\ cleanData' = WithRows(viewData, analyticsData'.raw)
  /\ appState' = "dashboard"
  /\ Unmounted
  /\ UNCHANGED <<engineVars, rawJSON, reads, selected, request>>

NextApp ==
  \/ HandleFileUpload \/ ReaderOnLoad \/ SelectColumn \/ ApplyTransform
  \/ HandleUndo \/ Cancel \/ HandleCleaningComplete

SpecApp == Init /\ [][NextApp]_vars

\* one stay in the cleaning view: the files are chosen and read, the rows
\* are cleaned, and the view is not left
NextCleaning ==
  HandleFileUpload \/ ReaderOnLoad \/ SelectColumn \/ ApplyTransform \/ HandleUndo

SpecCleaning == Init /\ [][NextCleaning]_vars

(***************************************************************************)
(* Claims about the undo history of the cleaning view (SpecCleaning)       *)
(***************************************************************************)
\* the step is a call of applyTransform
RequestStep == request'.count = request.count + 1

\* the step is a click on Undo
UndoStep ==
  /\ appState = "cleaning" /\ appState' = "cleaning"
  /\ request' = request
  /\ history' # history

\* C29: after any sequence of transforms and undos the undo history holds
\* at most 5 snapshots, and pressing Undo immediately after an applied
\* transform restores the dataset to exactly the rows it had before that
\* transform and removes that snapshot from the history: an applied
\* transform leaves the rows it started from as the newest snapshot, and
\* Undo makes the newest snapshot the dataset and drops it.
C29_UndoRestoresPreviousRows ==
  [][/\ Len(history') <= 5
     /\ (RequestStep /\ request'.applied) =>
          /\ history' # <<>>
          /\ history'[Len(history')] = viewData
     /\ UndoStep =>
          /\ viewData' = history[Len(history)]
          /\ Len(history') = Len(history) - 1
          /\ \A i \in DOMAIN history' : history'[i] = history[i]]_vars

\* C29 witness: in the view of file A three transforms were requested, the
\* last of them applied, and an Undo has taken the newest of the three
\* snapshots: the rows are those of the file again.
C29_Witness ==
  /\ appState = "cleaning"
  /\ request.count = 3 /\ request.applied
  /\ history = <<Parsed("A"), Parsed("A")>>
  /\ viewData = Parsed("A")

\* C30: a transform request that is not applied (a column-scoped action
\* invoked with no column selected, or text-to-columns whose delimiter
\* prompt is cancelled or empty) leaves both the dataset and the undo
\* history unchanged.
C30_RejectedRequestChangesNothing ==
  [][(RequestStep /\ ~request'.applied) =>
       (viewData' = viewData /\ history' = history)]_vars

(***************************************************************************)
(* Claims about the application's states (SpecApp)                         *)
(***************************************************************************)
\* C24: whenever the application is in the dashboard state, the KPIs, raw
\* rows and headers it shows were computed from scratch from the dataset
\* most recently confirmed in the cleaning step: the dashboard never shows
\* analytics of an earlier dataset or of no dataset.
C24_DashboardShowsConfirmedData ==
  appState = "dashboard" =>
    /\ Len(cleanData) > 0
    /\ analyticsData = Profile(cleanData)

\* C28: if the user selects file A and then file B, then whatever order the
\* two asynchronous reads complete in, once both have completed the dataset
\* held for cleaning and analysis is the one parsed from the most recently
\* selected file: rawJSON holds its rows, and so does a cleaning view in
\* which no transform has been requested yet.
C28_LastSelectedFileWins ==
  (reads = {} /\ selected # "none") =>
    /\ rawJSON = Parsed(selected)
    /\ (appState = "cleaning" /\ request.count = 0) => viewData = Parsed(selected)

============================================================================
